---------------------------- MODULE Spec2Model ----------------------------
(***************************************************************************)
(* Narration Resolution Pipeline of budgetbuddy-ai (mybudget-ai):          *)
(*   preprocessing_utils.py   the narration normalizer                     *)
(*   distilbert_inference.py  keyword matcher and the predictor cascade    *)
(*   inference_local.py       correction cache, predict, predict_batch     *)
(*   add_correction.py        the correction write path                    *)
(*                                                                         *)
(* Python strings that the code inspects character by character            *)
(* (narrations, categories, keywords) are sequences of one-character       *)
(* strings; labels the code only passes through are TLA+ strings.          *)
(***************************************************************************)
EXTENDS Integers, Sequences, FiniteSets, TLC

(***************************************************************************)
(* Characters and the str methods the code uses                            *)
(***************************************************************************)
UpperSeq ==
  << "A","B","C","D","E","F","G","H","I","J","K","L","M",
     "N","O","P","Q","R","S","T","U","V","W","X","Y","Z" >>

LowerSeq ==
  << "a","b","c","d","e","f","g","h","i","j","k","l","m",
     "n","o","p","q","r","s","t","u","v","w","x","y","z" >>

UpperChars == { UpperSeq[i] : i \in 1..26 }

LowerChars == { LowerSeq[i] : i \in 1..26 }

Letters == UpperChars \cup LowerChars

DigitChars == { "0","1","2","3","4","5","6","7","8","9" }

Alnum == Letters \cup DigitChars

UpperAlnum == UpperChars \cup DigitChars

\* \w of the re module (ASCII part)
WordChars == Alnum \cup { "_" }

\* \s of the re module and the default of str.strip()
Whitespace == { " ", "\t", "\n" }

Separators == { "-", "/" }

ToLowerChar == [ c \in UpperChars |-> LowerSeq[CHOOSE i \in 1..26 : UpperSeq[i] = c] ]

lower_char(c) == IF c \in UpperChars THEN ToLowerChar[c] ELSE c

\* str.lower()
str_lower(s) == [ i \in 1..Len(s) |-> lower_char(s[i]) ]

SetMin(S) == CHOOSE x \in S : \A y \in S : x <= y

SetMax(S) == CHOOSE x \in S : \A y \in S : x >= y

\* str.strip(chars)
strip_chars(s, C) ==
  LET keep == { i \in 1..Len(s) : s[i] \notin C }
  IN  IF keep = {} THEN << >> ELSE SubSeq(s, SetMin(keep), SetMax(keep))

\* str.strip()
str_strip(s) == strip_chars(s, Whitespace)

\* sub in s
str_contains(s, sub) ==
  \E i \in 1..(Len(s) - Len(sub) + 1) : SubSeq(s, i, i + Len(sub) - 1) = sub

\* index of the first occurrence of sub in s, 0 when there is none (str.find + 1)
str_find(s, sub) ==
  LET hits == { i \in 1..(Len(s) - Len(sub) + 1) : SubSeq(s, i, i + Len(sub) - 1) = sub }
  IN  IF hits = {} THEN 0 ELSE SetMin(hits)

(***************************************************************************)
(* The regular-expression primitives the patterns are built from.  A       *)
(* matcher M(s, i) gives the length of the match the re engine finds       *)
(* starting at position i of s, 0 when there is none (no pattern of the    *)
(* code matches the empty string).                                         *)
(***************************************************************************)
\* length of the maximal run of characters of C starting at position i
RunLen(s, i, C) ==
  IF i > Len(s) THEN 0
  ELSE SetMin({ j \in i..(Len(s) + 1) : j = Len(s) + 1 \/ s[j] \notin C }) - i

\* \b between positions i-1 and i
WordBoundary(s, i) ==
  LET before == i > 1 /\ i - 1 <= Len(s) /\ s[i-1] \in WordChars
      after  == i >= 1 /\ i <= Len(s) /\ s[i] \in WordChars
  IN  before # after

\* the literal w at position i, re.IGNORECASE
LitAtCI(s, i, w) ==
  /\ i >= 1
  /\ i + Len(w) - 1 <= Len(s)
  /\ \A k \in 1..Len(w) : lower_char(s[i + k - 1]) = lower_char(w[k])

\* re.sub(pattern, repl, s): leftmost non-overlapping matches, left to right
RegexSub(M(_, _), repl, s) ==
  IF s = << >> THEN << >>
  ELSE
    LET n == Len(s)
        f[i \in 1..(n + 1)] ==
          LET hits == { j \in i..n : M(s, j) > 0 }
          IN  IF hits = {} THEN SubSeq(s, i, n)
              ELSE LET j == SetMin(hits)
                   IN  SubSeq(s, i, j - 1) \o repl \o f[j + M(s, j)]
    IN  f[1]

\* e, with v computed first (the statements of the code run in order)
Then(v, e) == IF v = v THEN e ELSE e

\* re.search(pattern, s)
RegexSearch(M(_, _), s) == \E i \in 1..Len(s) : M(s, i) > 0

\* \bW\b, re.IGNORECASE
m_word(s, i, w) ==
  IF WordBoundary(s, i) /\ LitAtCI(s, i, w) /\ WordBoundary(s, i + Len(w))
  THEN Len(w) ELSE 0

\* re.search(r'\b\b', s): the empty match at a word boundary
m_empty_word(s) == \E i \in 1..(Len(s) + 1) : WordBoundary(s, i)

\* \bW1\s+W2\b, re.IGNORECASE
m_two_words(s, i, w1, w2) ==
  IF WordBoundary(s, i) /\ LitAtCI(s, i, w1)
  THEN LET j  == i + Len(w1)
           ws == RunLen(s, j, Whitespace)
       IN  IF ws >= 1 /\ LitAtCI(s, j + ws, w2) /\ WordBoundary(s, j + ws + Len(w2))
           THEN Len(w1) + ws + Len(w2) ELSE 0
  ELSE 0

\* [A-Z][a-z]{2,}\b under re.IGNORECASE: a run of three or more letters that
\* ends at a word boundary
m_name(s, j) ==
  LET L == RunLen(s, j, Letters)
  IN  IF L >= 3 /\ WordBoundary(s, j + L) THEN L ELSE 0

\* \bKW[-/ ]+[A-Z][a-z]{2,}\b, re.IGNORECASE
m_kw_name(s, i, kw) ==
  IF WordBoundary(s, i) /\ LitAtCI(s, i, kw)
  THEN LET j  == i + Len(kw)
           sp == RunLen(s, j, Separators \cup { " " })
       IN  IF sp >= 1 /\ m_name(s, j + sp) > 0
           THEN Len(kw) + sp + m_name(s, j + sp) ELSE 0
  ELSE 0

\* \b[A-Z][a-z]{2,}[-/ ]+(?:and|&)[-/ ]+[A-Z][a-z]{2,}\b, re.IGNORECASE
m_name_and_name(s, i) ==
  LET L1  == RunLen(s, i, Letters)
      sp1 == RunLen(s, i + L1, Separators \cup { " " })
      j   == i + L1 + sp1
      cj  == IF LitAtCI(s, j, << "a","n","d" >>) THEN 3
             ELSE IF LitAtCI(s, j, << "&" >>) THEN 1 ELSE 0
      sp2 == RunLen(s, j + cj, Separators \cup { " " })
  IN  IF /\ WordBoundary(s, i) /\ L1 >= 3 /\ sp1 >= 1 /\ cj >= 1 /\ sp2 >= 1
         /\ m_name(s, j + cj + sp2) > 0
      THEN L1 + sp1 + cj + sp2 + m_name(s, j + cj + sp2) ELSE 0

\* \b[A-Z][a-z]{2,}[-/ ]+paid\b, re.IGNORECASE
m_name_paid(s, i) ==
  LET L1 == RunLen(s, i, Letters)
      sp == RunLen(s, i + L1, Separators \cup { " " })
      j  == i + L1 + sp
  IN  IF /\ WordBoundary(s, i) /\ L1 >= 3 /\ sp >= 1
         /\ LitAtCI(s, j, << "p","a","i","d" >>) /\ WordBoundary(s, j + 4)
      THEN L1 + sp + 4 ELSE 0

\* ^[A-Z]{2,}-[A-Z][a-z]{2,}, re.IGNORECASE (anchored: position 1 only)
m_code_dash_name(s) ==
  LET L1 == RunLen(s, 1, Letters)
  IN  /\ L1 >= 2
      /\ L1 + 1 <= Len(s)
      /\ s[L1 + 1] = "-"
      /\ RunLen(s, L1 + 2, Letters) >= 3

\* [-/]+
m_separators(s, i) == RunLen(s, i, Separators)

\* \s+
\* \s, one character at a time
m_whitespace_each(s, i) == IF s[i] \in Whitespace THEN 1 ELSE 0

m_whitespace(s, i) == RunLen(s, i, Whitespace)

(***************************************************************************)
(* preprocessing_utils.py: P2P detection                                   *)
(***************************************************************************)
p2p_indicators ==
  << <<"f","r","i","e","n","d">>,
     <<"f","r","i","e","n","d","s">>,
     <<"w","i","t","h"," ","f","r","i","e","n","d">>,
     <<"w","i","t","h"," ","f","r","i","e","n","d","s">>,
     <<"d","i","n","n","e","r">>,
     <<"l","u","n","c","h">>,
     <<"o","u","t","i","n","g">>,
     <<"h","a","n","g","o","u","t">>,
     <<"s","o","c","i","a","l">>,
     <<"g","r","o","u","p"," ","e","x","p","e","n","s","e">>,
     <<"s","h","a","r","e","d">>,
     <<"r","e","i","m","b","u","r","s","e","d">>,
     <<"r","e","i","m","b","u","r","s","e">>,
     <<"l","e","n","t">>,
     <<"b","o","r","r","o","w","e","d">>,
     <<"l","o","a","n"," ","t","o">>,
     <<"g","i","v","e","n"," ","t","o">>,
     <<"r","e","c","e","i","v","e","d"," ","f","r","o","m">>,
     <<"g","i","f","t">>,
     <<"b","i","r","t","h","d","a","y">>,
     <<"w","e","d","d","i","n","g">>,
     <<"a","n","n","i","v","e","r","s","a","r","y">>,
     <<"p","a","r","t","y">>,
     <<"s","p","l","i","t">>,
     <<"s","h","a","r","e","d"," ","e","x","p","e","n","s","e">>,
     <<"c","o","n","t","r","i","b","u","t","i","o","n">>,
     <<"t","o"," ">>,
     <<"f","r","o","m"," ">>,
     <<"s","e","n","t"," ","t","o">>,
     <<"p","a","i","d"," ","t","o">>,
     <<"r","e","c","e","i","v","e","d"," ","f","r","o","m">> >>

\* any(re.search(pattern, s, re.IGNORECASE) for pattern in person_name_patterns)
person_name_patterns(s) ==
  \/ RegexSearch(LAMBDA t, i : m_kw_name(t, i, << "t","o" >>), s)
  \/ RegexSearch(LAMBDA t, i : m_kw_name(t, i, << "f","r","o","m" >>), s)
  \/ RegexSearch(LAMBDA t, i : m_kw_name(t, i, << "w","i","t","h" >>), s)
  \/ RegexSearch(m_name_and_name, s)
  \/ RegexSearch(m_name_paid, s)
  \/ RegexSearch(LAMBDA t, i : m_kw_name(t, i, << "p","a","i","d" >>), s)
  \/ m_code_dash_name(s)

is_likely_p2p(narration) ==
  IF narration = << >> THEN FALSE
  ELSE
    LET narration_lower      == str_lower(narration)
        narration_normalized == RegexSub(m_separators, << " " >>, narration)
        has_p2p_keywords ==
          \/ \E k \in 1..Len(p2p_indicators) :
               str_contains(narration_lower, p2p_indicators[k])
          \/ \E k \in 1..Len(p2p_indicators) :
               str_contains(str_lower(narration_normalized), p2p_indicators[k])
        has_person_name ==
          \/ person_name_patterns(narration)
          \/ person_name_patterns(narration_normalized)
    IN  has_p2p_keywords \/ has_person_name

(***************************************************************************)
(* preprocessing_utils.py: the normalizer's patterns, in the order used    *)
(***************************************************************************)
DEFAULT_NOISE_WORDS ==
  << <<"Y","O","U"," ","A","R","E"," ","P","A","Y","I","N","G"," ","F","O","R">>,
     <<"P","A","Y","M","E","N","T"," ","F","O","R">>,
     <<"T","R","A","N","S","A","C","T","I","O","N">>,
     <<"G","E","N","E","R","A","T","I","N","G"," ","D","Y","N","A","M","I","C">>,
     <<"R","E","F"," ","N","O">>,
     <<"T","X","N">>,
     <<"T","X","N","I","D">> >>

\* load_noise_words() with no preprocessing.noise_words in categories.yml
TRANSACTION_NOISE_WORDS == DEFAULT_NOISE_WORDS

critical_noise ==
  << <<"T","X","N">>,
     <<"T","X","N","I","D">>,
     <<"R","E","F"," ","N","O">>,
     <<"G","E","N","E","R","A","T","I","N","G"," ","D","Y","N","A","M","I","C">> >>

\* ^UPI[-/], re.IGNORECASE
m_upi_prefix(s) ==
  /\ Len(s) >= 4
  /\ LitAtCI(s, 1, << "U","P","I" >>)
  /\ s[4] \in Separators

\* ^([A-Z0-9]+(?:-[A-Z0-9]+)*), re.IGNORECASE: length of the bank handle, 0 if none
m_bank_tag(s) ==
  LET first == RunLen(s, 1, Alnum)
      ext[p \in 0..Len(s)] ==
        IF p + 1 <= Len(s) /\ s[p + 1] = "-" /\ RunLen(s, p + 2, Alnum) >= 1
        THEN ext[p + 1 + RunLen(s, p + 2, Alnum)]
        ELSE p
  IN  IF first = 0 THEN 0 ELSE ext[first]

\* re.search(r'[A-Z][a-z]{2,}', s), case-sensitive
has_capitalized_word(s) ==
  \E i \in 1..(Len(s) - 2) :
    s[i] \in UpperChars /\ s[i + 1] \in LowerChars /\ s[i + 2] \in LowerChars

\* [-/]\d{9,}
m_sep_long_number(s, i) ==
  IF s[i] \in Separators /\ RunLen(s, i + 1, DigitChars) >= 9
  THEN 1 + RunLen(s, i + 1, DigitChars) ELSE 0

\* \s+\d{9,}
m_ws_long_number(s, i) ==
  LET ws == RunLen(s, i, Whitespace)
  IN  IF ws >= 1 /\ RunLen(s, i + ws, DigitChars) >= 9
      THEN ws + RunLen(s, i + ws, DigitChars) ELSE 0

\* [A-Z]+\.\d{12,}, re.IGNORECASE
m_prefixed_number(s, i) ==
  LET L == RunLen(s, i, Letters)
  IN  IF /\ L >= 1 /\ i + L <= Len(s) /\ s[i + L] = "."
         /\ RunLen(s, i + L + 1, DigitChars) >= 12
      THEN L + 1 + RunLen(s, i + L + 1, DigitChars) ELSE 0

\* PAYTM\.[A-Z0-9]+, re.IGNORECASE
m_paytm_dot(s, i) ==
  IF LitAtCI(s, i, << "P","A","Y","T","M","." >>) /\ RunLen(s, i + 6, Alnum) >= 1
  THEN 6 + RunLen(s, i + 6, Alnum) ELSE 0

\* [-/]PAYTMQR[A-Z0-9]+, re.IGNORECASE
m_sep_paytmqr(s, i) ==
  IF /\ s[i] \in Separators
     /\ LitAtCI(s, i + 1, << "P","A","Y","T","M","Q","R" >>)
     /\ RunLen(s, i + 8, Alnum) >= 1
  THEN 8 + RunLen(s, i + 8, Alnum) ELSE 0

\* \bPAYTMQR[A-Z0-9]+\b, re.IGNORECASE
m_word_paytmqr(s, i) ==
  LET L == RunLen(s, i + 7, Alnum)
  IN  IF /\ WordBoundary(s, i)
         /\ LitAtCI(s, i, << "P","A","Y","T","M","Q","R" >>)
         /\ L >= 1
         /\ WordBoundary(s, i + 7 + L)
      THEN 7 + L ELSE 0

\* [-/]([A-Z]{8,}[0-9]{6,}), case-sensitive
m_clearing_code(s, i) ==
  LET U == RunLen(s, i + 1, UpperChars)
      D == RunLen(s, i + 1 + U, DigitChars)
  IN  IF s[i] \in Separators /\ U >= 8 /\ D >= 6 THEN 1 + U + D ELSE 0

\* [-/]([A-Z]*[0-9][A-Z0-9]{14,}), case-sensitive
m_long_alnum_code(s, i) ==
  LET U == RunLen(s, i + 1, UpperChars)
      d == i + 1 + U
      R == RunLen(s, d + 1, UpperAlnum)
  IN  IF /\ s[i] \in Separators
         /\ d <= Len(s) /\ s[d] \in DigitChars
         /\ R >= 14
      THEN 1 + U + 1 + R ELSE 0

\* [-/]\d{6,}[A-Z0-9]{4,}, case-sensitive: the digits give back what the
\* suffix needs, so the match is the whole run when it has 6 leading digits
\* and 10 characters
m_digits_suffix(s, i) ==
  LET D == RunLen(s, i + 1, DigitChars)
      T == RunLen(s, i + 1, UpperAlnum)
  IN  IF s[i] \in Separators /\ D >= 6 /\ T >= 10 THEN 1 + T ELSE 0

\* \b(BANK\s+)?LTD\.?\b, re.IGNORECASE
m_ltd(s, i) ==
  LET ltd(j) ==
        IF LitAtCI(s, j, << "L","T","D" >>)
        THEN IF j + 3 <= Len(s) /\ s[j + 3] = "." /\ WordBoundary(s, j + 4)
             THEN 4
             ELSE IF WordBoundary(s, j + 3) THEN 3 ELSE 0
        ELSE 0
      ws == RunLen(s, i + 4, Whitespace)
      withBank ==
        IF LitAtCI(s, i, << "B","A","N","K" >>) /\ ws >= 1 /\ ltd(i + 4 + ws) > 0
        THEN 4 + ws + ltd(i + 4 + ws) ELSE 0
  IN  IF ~WordBoundary(s, i) THEN 0
      ELSE IF withBank > 0 THEN withBank ELSE ltd(i)

\* \bgroc(?=\s|[-/]|$), re.IGNORECASE
m_groc(s, i) ==
  IF /\ WordBoundary(s, i)
     /\ LitAtCI(s, i, << "g","r","o","c" >>)
     /\ \/ i + 4 = Len(s) + 1
        \/ s[i + 4] \in Whitespace \cup Separators
  THEN 4 ELSE 0

\* for noise_word in words: text = re.sub(r'\b' + re.escape(noise_word) + r'\b', '', text)
RECURSIVE remove_noise_words(_, _)
remove_noise_words(text, words) ==
  Then(text,
       IF words = << >> THEN text
       ELSE remove_noise_words(
              RegexSub(LAMBDA s, i : m_word(s, i, Head(words)), << >>, text),
              Tail(words)))

(***************************************************************************)
(* preprocessing_utils.py: preprocess_upi_narration                        *)
(***************************************************************************)
\* Step 2: bank tags and handles at the first '@'
remove_bank_tag(text, is_p2p) ==
  LET at == str_find(text, << "@" >>)
  IN  IF at = 0 THEN text
      ELSE
        LET before_at == SubSeq(text, 1, at - 1)
            after_at  == SubSeq(text, at + 1, Len(text))
            bank_tag  == m_bank_tag(after_at)
        IN  IF is_p2p /\ is_likely_p2p(after_at)
            THEN IF bank_tag > 0
                 THEN LET remaining ==
                            str_strip(SubSeq(after_at, bank_tag + 1, Len(after_at)))
                      IN  IF remaining # << >>
                          THEN before_at \o << " " >> \o remaining
                          ELSE before_at
                 ELSE IF has_capitalized_word(after_at)
                      THEN before_at \o << " " >> \o after_at
                      ELSE before_at
            ELSE IF bank_tag > 0
                 THEN before_at \o SubSeq(after_at, bank_tag + 1, Len(after_at))
                 ELSE before_at

\* Steps 3 to 10 are one substitution each, applied in this order: the
\* text after step k of them
normalizer_step(k, text, is_p2p) ==
  CASE k = 1  -> RegexSub(m_sep_long_number, << >>, text)
    [] k = 2  -> RegexSub(m_ws_long_number, << >>, text)
    [] k = 3  -> RegexSub(m_prefixed_number, << >>, text)
    [] k = 4  -> RegexSub(m_paytm_dot, << >>, text)
    [] k = 5  -> RegexSub(m_sep_paytmqr, << >>, text)
    [] k = 6  -> RegexSub(m_word_paytmqr, << >>, text)
    [] k = 7  -> RegexSub(m_clearing_code, << >>, text)
    [] k = 8  -> RegexSub(m_long_alnum_code, << >>, text)
    [] k = 9  -> RegexSub(m_digits_suffix, << >>, text)
    [] k = 10 -> RegexSub(LAMBDA s, i : m_two_words(s, i, <<"A","C","H">>, <<"D">>),
                          <<"A","C","H"," ","D","E","B","I","T">>, text)
    [] k = 11 -> RegexSub(LAMBDA s, i :
                            m_two_words(s, i, <<"C","H","Q">>, <<"P","A","I","D">>),
                          <<"C","H","E","Q","U","E"," ","P","A","Y","M","E","N","T">>, text)
    [] k = 12 -> RegexSub(LAMBDA s, i :
                            m_two_words(s, i, <<"C","H","E","Q","U","E">>, <<"P","A","I","D">>),
                          <<"C","H","E","Q","U","E"," ","P","A","Y","M","E","N","T">>, text)
    [] k = 13 -> RegexSub(LAMBDA s, i :
                            m_two_words(s, i, <<"T","R","A","N","S","F","E","R">>, <<"I","N">>),
                          <<"B","A","N","K"," ","T","R","A","N","S","F","E","R">>, text)
    [] k = 14 -> RegexSub(LAMBDA s, i :
                            m_two_words(s, i, <<"T","R","A","N","S","F","E","R">>, <<"O","U","T">>),
                          <<"B","A","N","K"," ","T","R","A","N","S","F","E","R">>, text)
    [] k = 15 -> RegexSub(m_ltd, << >>, text)
    [] k = 16 -> RegexSub(LAMBDA s, i : m_word(s, i, <<"g","r","o","c","i","e","s">>),
                          <<"g","r","o","c","e","r","y">>, text)
    [] k = 17 -> RegexSub(m_groc, <<"g","r","o","c","e","r","y">>, text)
    [] k = 18 -> RegexSub(LAMBDA s, i : m_word(s, i, <<"g","r","o","c","e","r","i","e">>),
                          <<"g","r","o","c","e","r","y">>, text)
    [] k = 19 -> RegexSub(LAMBDA s, i : m_word(s, i, <<"g","r","o","c","e","r","y","s">>),
                          <<"g","r","o","c","e","r","y">>, text)
    [] k = 20 -> RegexSub(LAMBDA s, i : m_word(s, i, <<"f","o","o","d","s">>),
                          <<"f","o","o","d">>, text)
    [] k = 21 -> RegexSub(m_separators, << " " >>, text)
    [] k = 22 -> IF ~is_p2p
                 THEN remove_noise_words(text, TRANSACTION_NOISE_WORDS)
                 ELSE remove_noise_words(text, critical_noise)
    [] k = 23 -> RegexSub(m_whitespace, << " " >>, text)
    [] OTHER  -> strip_chars(text, { " ", "-", "/" })

\* steps k onwards, the statements of the code running in order
RECURSIVE normalizer_steps(_, _, _)
normalizer_steps(k, text, is_p2p) ==
  Then(text,
       IF k > 24 THEN text
       ELSE normalizer_steps(k + 1, normalizer_step(k, text, is_p2p), is_p2p))

\* Python's None, distinct from every string (strings are sequences of
\* one-character strings)
None == << "<None>" >>

\* a value that is no string and is truthy, such as the number 5
NOT_A_STRING == << "<int>" >>

\* isinstance(text, str)
isinstance_str(text) == text \notin { None, NOT_A_STRING }

preprocess_upi_narration(text_in, preserve_p2p_clues) ==
  LET text == str_strip(text_in)
  IN  IF ~isinstance_str(text_in) THEN << >>
      ELSE IF text = << >> THEN << >>
      ELSE
        LET p2p_first == preserve_p2p_clues /\ is_likely_p2p(text)
            has_upi   == m_upi_prefix(text)
            text_after_upi == IF has_upi THEN SubSeq(text, 5, Len(text)) ELSE text
            is_p2p ==
              IF has_upi /\ ~p2p_first
              THEN preserve_p2p_clues /\ is_likely_p2p(text_after_upi)
              ELSE p2p_first
        IN  normalizer_steps(1, remove_bank_tag(text_after_upi, is_p2p), is_p2p)

(***************************************************************************)
(* Values                                                                  *)
(***************************************************************************)
Uncategorized == <<"U","n","c","a","t","e","g","o","r","i","z","e","d">>

\* the " / " of a full category name
CATEGORY_SEPARATOR == <<" ","/"," ">>

\* a dict is the set of its <<key, value>> items
dict_get(d, k) ==
  IF \E item \in d : item[1] = k
  THEN (CHOOSE item \in d : item[1] = k)[2]
  ELSE None

dict_set(d, k, v) == { item \in d : item[1] # k } \cup { << k, v >> }

dict_keys(d) == { item[1] : item \in d }

(***************************************************************************)
(* Inputs of the model: narrations, categories, the taxonomy               *)
(***************************************************************************)
N_EMPTY == << >>

N_BLANK == <<" ">>

N_STARBUCKS == <<"S","t","a","r","b","u","c","k","s">>

N_UPI_STARBUCKS ==
  <<"U","P","I","/","S","T","A","R","B","U","C","K","S","@","p","a","y","t","m">>

N_SCENARIO4 ==
  <<"U","P","I","-","S","T","A","R","B","U","C","K","S","-","9","9","9","@","p","a","y","t","m">>

N_TXN == <<"T","X","N">>

N_ZOMATO == <<"U","P","I","-","Z","O","M","A","T","O","-","1","@","y","b","l">>

N_RENT == <<"R","e","n","t">>

N_STARBUCKS_UPPER == <<" ","S","T","A","R","B","U","C","K","S"," ">>

N_STARBUCKS_CAPS == <<"S","T","A","R","B","U","C","K","S">>

C_DINING_CAFES == <<"D","i","n","i","n","g"," ","/"," ","C","a","f","e","s">>

C_DINING == <<"D","i","n","i","n","g">>

C_CAFES == <<"C","a","f","e","s">>

C_SHOPPING == <<"S","h","o","p","p","i","n","g">>

C_DELIVERY ==
  <<"D","i","n","i","n","g"," ","/"," ","F","o","o","d"," ","D","e","l","i","v","e","r","y">>

C_TRAVEL_CAB == <<"T","r","a","v","e","l"," ","/"," ","C","a","b">>

C_FUNDS == <<"I","n","v","e","s","t","m","e","n","t","s">>

C_MUTUAL ==
  <<"I","n","v","e","s","t","m","e","n","t","s"," ","/"," ",
    "M","u","t","u","a","l"," ","F","u","n","d","s">>

\* the narrations handed to predict
Narrations ==
  { N_EMPTY, N_BLANK, N_STARBUCKS, N_UPI_STARBUCKS, N_SCENARIO4, N_TXN, N_ZOMATO, N_RENT }

\* the narrations handed to predict_batch
BatchNarrations == { N_EMPTY, N_UPI_STARBUCKS, N_ZOMATO }

\* what load_keyword_mappings returns for the categories.yml in use:
\* (keyword, full category name) in file order; << >> when the file is missing
Taxonomy ==
  << << <<"f","u","n","d">>, C_FUNDS >>,
     << <<"m","u","t","u","a","l"," ","f","u","n","d">>, C_MUTUAL >>,
     << <<"z","o","m","a","t","o">>, C_DELIVERY >>,
     << <<"s","t","a","r","b","u","c","k","s">>, C_DINING_CAFES >> >>

(***************************************************************************)
(* The normalizer as the inference process holds it.  inference_local.py   *)
(* and clean_text import preprocess_upi_narration when the process starts  *)
(* and call it with preserve_p2p_clues=True only; the process holds the    *)
(* function on the narrations of the model.                                *)
(***************************************************************************)
NormalizedP2P ==
  [ n \in Narrations \cup { N_STARBUCKS_UPPER, N_STARBUCKS_CAPS } |->
      preprocess_upi_narration(n, TRUE) ]

VARIABLE preprocessing_utils   \* the imported module

\* preprocess_upi_narration(text, preserve_p2p_clues=True)
preprocess_p2p(text) == preprocessing_utils.preprocess_upi_narration[text]

\* distilbert_inference.clean_text (preprocessing_utils is importable)
clean_text(text) ==
  IF text = << >> THEN << >> ELSE preprocess_p2p(text)

(***************************************************************************)
(* inference_local.py: extract_category_parts                              *)
(***************************************************************************)
\* (top_category, subcategory)
extract_category_parts_unsplit(category) == [ top |-> category, sub |-> None ]

extract_category_parts(category) ==
  IF category = << >> \/ category = None
  THEN [ top |-> category, sub |-> None ]
  ELSE
    LET at == str_find(category, CATEGORY_SEPARATOR)
    IN  IF at > 0
        THEN [ top |-> str_strip(SubSeq(category, 1, at - 1)),
               sub |-> str_strip(SubSeq(category, at + 3, Len(category))) ]
        ELSE [ top |-> category, sub |-> None ]

\* Python truth value of a string or None
truthy(x) == x # None /\ x # << >>

(***************************************************************************)
(* distilbert_inference.py: load_keyword_mappings.  categories.yml is      *)
(*   [ kind, categories ]: kind is "missing" (no file), "malformed" (not   *)
(*   YAML), "empty" (no 'categories' key) or "config", and categories the  *)
(*   list of [ has_name, name, has_subcategories, subcategories, keywords ]*)
(*   with subcategories a list of [ has_name, name, keywords ] and         *)
(*   keywords a list of strings, None for an entry that is no string       *)
(***************************************************************************)
\* (keyword.lower().strip(), full_category_name) for the keywords of a list
\* that are strings and not empty
keyword_entries(keywords, full_category_name) ==
  LET kept == SelectSeq(keywords, LAMBDA keyword : truthy(keyword))
  IN  [ i \in 1..Len(kept) |->
          << str_strip(str_lower(kept[i])), full_category_name >> ]

RECURSIVE subcategory_entries(_, _)
subcategory_entries(top_name, subcategories) ==
  IF subcategories = << >> THEN << >>
  ELSE LET subcat == Head(subcategories)
       IN  ( IF ~subcat.has_name THEN << >>
             ELSE keyword_entries(subcat.keywords,
                                  top_name \o CATEGORY_SEPARATOR \o subcat.name) )
           \o subcategory_entries(top_name, Tail(subcategories))

RECURSIVE category_entries(_)
category_entries(categories) ==
  IF categories = << >> THEN << >>
  ELSE LET cat == Head(categories)
       IN  ( IF ~cat.has_name THEN << >>
             ELSE IF cat.has_subcategories
             THEN subcategory_entries(cat.name, cat.subcategories)
             ELSE keyword_entries(cat.keywords, cat.name) )
           \o category_entries(Tail(categories))

load_keyword_mappings(categories_file) ==
  IF categories_file.kind # "config" THEN << >>
  ELSE category_entries(categories_file.categories)

(***************************************************************************)
(* distilbert_inference.py: match_keywords                                 *)
(***************************************************************************)
\* sorted(keyword_mappings, key=lambda x: len(x[0]), reverse=True): a stable
\* sort, so equal lengths keep the order of the list
sorted_mappings_file_order(keyword_mappings) == keyword_mappings

\* longest first, and of two keywords of one length the later one first
sorted_mappings_later_first(keyword_mappings) ==
  LET idx == 1..Len(keyword_mappings)
      precedes(j, i) ==
        \/ Len(keyword_mappings[j][1]) > Len(keyword_mappings[i][1])
        \/ /\ Len(keyword_mappings[j][1]) = Len(keyword_mappings[i][1])
           /\ j > i
      rank(i) == Cardinality({ j \in idx : precedes(j, i) }) + 1
  IN  [ r \in idx |-> keyword_mappings[CHOOSE i \in idx : rank(i) = r] ]

sorted_mappings(keyword_mappings) ==
  LET idx == 1..Len(keyword_mappings)
      precedes(j, i) ==
        \/ Len(keyword_mappings[j][1]) > Len(keyword_mappings[i][1])
        \/ /\ Len(keyword_mappings[j][1]) = Len(keyword_mappings[i][1])
           /\ j < i
      rank(i) == Cardinality({ j \in idx : precedes(j, i) }) + 1
  IN  [ r \in idx |-> keyword_mappings[CHOOSE i \in idx : rank(i) = r] ]

match_keywords(narration, keyword_mappings) ==
  IF narration = << >> \/ keyword_mappings = << >> THEN None
  ELSE
    LET narration_lower == str_lower(narration)
        sorted == sorted_mappings(keyword_mappings)
        hits == { r \in 1..Len(sorted) :
                    IF sorted[r][1] = << >>
                    THEN m_empty_word(narration_lower)
                    ELSE RegexSearch(LAMBDA s, i : m_word(s, i, sorted[r][1]),
                                     narration_lower) }
    IN  IF hits = {} THEN None ELSE sorted[SetMin(hits)][2]

(***************************************************************************)
(* The external classifier (DistilBertPredictor._predict_with_model).      *)
(* The weights are fixed when the predictor is loaded, so within a process *)
(* the outcome is a function of the text: a result, or an exception.       *)
(***************************************************************************)
Raised(msg) == [ raised |-> TRUE, error |-> msg ]

Returned(v) == [ raised |-> FALSE, value |-> v ]

\* what the model answers for a text it can classify
ModelResult ==
  [ transaction_type |-> "P2C",
    category         |-> C_TRAVEL_CAB,
    intent           |-> "purchase",
    confidence       |-> { << "transaction_type", 91 >>, << "category", 87 >>,
                           << "intent", 78 >> },
    probabilities    |-> { } ]

DefaultResult ==
  [ transaction_type |-> "N/A",
    category         |-> Uncategorized,
    intent           |-> "N/A",
    confidence       |-> { },
    probabilities    |-> { } ]

\* the texts on which a loaded classifier may raise (None: on no text)
FailingTexts == { None, <<"Z","O","M","A","T","O"," ","1">> }

predict_with_model(pred, clean_narration) ==
  IF clean_narration = pred.fails_on
  THEN Raised("inference failed")
  ELSE Returned([ ModelResult EXCEPT !.category = pred.category_label ])

(***************************************************************************)
(* distilbert_inference.py: DistilBertPredictor.predict                    *)
(***************************************************************************)
\* the keyword stage with the cleaned narration tried first
keyword_matched_category_cleaned_first(keyword_mappings, narration) ==
  LET clean_narration == clean_text(narration)
      clean_match == IF clean_narration # << >>
                     THEN match_keywords(clean_narration, keyword_mappings)
                     ELSE None
  IN  IF truthy(clean_match) THEN clean_match
      ELSE match_keywords(narration, keyword_mappings)

\* the keyword stage: the raw narration first, then the cleaned narration
keyword_matched_category(keyword_mappings, narration) ==
  LET raw_match == match_keywords(narration, keyword_mappings)
      clean_narration == clean_text(narration)
  IN  IF truthy(raw_match) THEN raw_match
      ELSE IF /\ clean_narration # << >>
              /\ str_lower(clean_narration) # str_lower(narration)
           THEN match_keywords(clean_narration, keyword_mappings)
           ELSE raw_match

DistilBertPredictor_predict(pred, narration) ==
  IF narration = << >> \/ str_strip(narration) = << >>
  THEN Returned(DefaultResult)
  ELSE
    LET clean_narration == clean_text(narration)
        matched_category ==
          keyword_matched_category(pred.keyword_mappings, narration)
    IN  IF truthy(matched_category)
        THEN
          LET model_call ==
                IF clean_narration # << >>
                THEN predict_with_model(pred, clean_narration)
                ELSE Returned([ transaction_type |-> "N/A",
                                intent           |-> "N/A",
                                confidence       |-> { },
                                probabilities    |-> { } ])
          IN  IF model_call.raised THEN model_call
              ELSE
                LET model_results == model_call.value
                IN  Returned(
                      [ transaction_type |-> model_results.transaction_type,
                        category         |-> matched_category,
                        intent           |-> model_results.intent,
                        confidence       |-> model_results.confidence,
                        probabilities    |-> model_results.probabilities,
                        keyword_matched  |-> TRUE,
                        model_category   |->
                          IF "category" \in DOMAIN model_results
                          THEN model_results.category ELSE Uncategorized ])
        ELSE
          IF clean_narration = << >>
          THEN Returned(DefaultResult)
          ELSE
            LET model_call == predict_with_model(pred, clean_narration)
            IN  IF model_call.raised THEN model_call
                ELSE Returned(
                       [ transaction_type |-> model_call.value.transaction_type,
                         category         |-> model_call.value.category,
                         intent           |-> model_call.value.intent,
                         confidence       |-> model_call.value.confidence,
                         probabilities    |-> model_call.value.probabilities,
                         keyword_matched  |-> FALSE ])

\* result.get(key, False) for the flags of a predictor result
flag(result, key) == key \in DOMAIN result /\ result[key]

(***************************************************************************)
(* user_corrections.json.  kind is what a reader finds: "missing", "empty" *)
(* (no content), "malformed" (not JSON), "notlist" (JSON, but not a list)  *)
(* or "list", and then records is the list of correction objects           *)
(*   [narration, category, timestamp, userId, transactionId]               *)
(* with None for an absent userId / transactionId.                         *)
(***************************************************************************)
File(kind, records) == [ kind |-> kind, records |-> records ]

Correction(narration, category, timestamp, userId, transactionId) ==
  [ narration |-> narration, category |-> category, timestamp |-> timestamp,
    userId |-> userId, transactionId |-> transactionId ]

(***************************************************************************)
(* inference_local.py: the correction cache                                *)
(***************************************************************************)
NoCache == [ is_none |-> TRUE, entries |-> { } ]

\* the loop over corrections_data of load_corrections
\* an element of the list that is no correction object, or one whose
\* narration or category is null: correction.get(..).strip() raises on it
malformed_record(correction) ==
  correction.narration = None \/ correction.category = None

\* the loop over corrections_data; a record on which it raises ends the loop
\* in the handler of load_corrections, with the entries stored so far
RECURSIVE load_entries(_, _)
load_entries(records, entries) ==
  IF records = << >> THEN entries
  ELSE IF malformed_record(Head(records)) THEN entries
  ELSE
    LET correction == Head(records)
        narration  == str_strip(correction.narration)
        category   == str_strip(correction.category)
        preprocessed_narration == preprocess_p2p(narration)
        key == IF preprocessed_narration # << >> /\ str_strip(preprocessed_narration) # << >>
               THEN str_strip(str_lower(preprocessed_narration))
               ELSE str_strip(str_lower(narration))
    IN  IF narration # << >> /\ category # << >>
        THEN load_entries(Tail(records), dict_set(entries, key, category))
        ELSE load_entries(Tail(records), entries)

\* load_corrections() testing "if _corrections_cache:" where the code tests
\* "if _corrections_cache is not None:", so that an empty cache is loaded again
load_corrections_unless_filled(cache, file) ==
  IF ~cache.is_none /\ cache.entries # { } THEN cache
  ELSE [ is_none |-> FALSE,
         entries |-> IF file.kind = "list"
                     THEN load_entries(file.records, { })
                     ELSE { } ]

\* load_corrections(): the cache after the call
load_corrections(cache, file) ==
  IF ~cache.is_none THEN cache
  ELSE [ is_none |-> FALSE,
         entries |-> IF file.kind = "list"
                     THEN load_entries(file.records, { })
                     ELSE { } ]

\* whether load_corrections() reads the backing file
load_reads_file(cache, file) == cache.is_none /\ file.kind # "missing"

\* get_corrected_category with no fallback to the raw description when the
\* preprocessed one is empty
get_corrected_category_preprocessed_only(description, corrections) ==
  IF description = << >> \/ str_strip(description) = << >> THEN None
  ELSE IF corrections = { } THEN None
  ELSE dict_get(corrections, str_strip(str_lower(preprocess_p2p(description))))

\* get_corrected_category(description), corrections being the loaded cache
get_corrected_category(description, corrections) ==
  IF description = << >> \/ str_strip(description) = << >> THEN None
  ELSE IF corrections = { } THEN None
  ELSE
    LET preprocessed == preprocess_p2p(description)
        preprocessed_desc ==
          IF preprocessed = << >> \/ str_strip(preprocessed) = << >>
          THEN str_strip(description)
          ELSE preprocessed
        key == str_strip(str_lower(preprocessed_desc))
    IN  dict_get(corrections, key)

(***************************************************************************)
(* inference_local.py: result dictionaries                                 *)
(***************************************************************************)
ErrorResult(msg) ==
  [ error |-> msg, predicted_category |-> Uncategorized,
    predicted_subcategory |-> None ]

\* response, plus predicted_subcategory when the subcategory is non-empty
Response(description, model_type, transaction_type, parts, intent, confidence, reason) ==
  IF truthy(parts.sub)
  THEN [ description |-> description, model_type |-> model_type,
         transaction_type |-> transaction_type,
         predicted_category |-> parts.top, intent |-> intent,
         confidence |-> confidence, reason |-> reason,
         predicted_subcategory |-> parts.sub ]
  ELSE [ description |-> description, model_type |-> model_type,
         transaction_type |-> transaction_type,
         predicted_category |-> parts.top, intent |-> intent,
         confidence |-> confidence, reason |-> reason ]

(***************************************************************************)
(* inference_local.py: predict                                             *)
(***************************************************************************)
\* STEP 1 with the classifier's category taken whenever the classifier answers
predict_correction_model_category(description, corrected_category, pred) ==
  LET clean_desc == clean_text(description)
      model_call ==
        IF ~pred.is_none /\ clean_desc # << >>
        THEN predict_with_model(pred, clean_desc)
        ELSE Raised("not called")
      got == ~model_call.raised
  IN  Response(description, "User_Correction",
               IF got THEN model_call.value.transaction_type ELSE "N/A",
               extract_category_parts(IF got THEN model_call.value.category
                                      ELSE corrected_category),
               IF got THEN model_call.value.intent ELSE "N/A",
               { << "category", 100 >> },
               "user_correction")

\* STEP 1 of predict taking the confidence from the model result as it
\* takes transaction_type and intent
predict_correction_model_confidence(description, corrected_category, pred) ==
  LET clean_desc == clean_text(description)
      model_call ==
        IF ~pred.is_none /\ clean_desc # << >>
        THEN predict_with_model(pred, clean_desc)
        ELSE Raised("not called")
      got == ~model_call.raised
  IN  Response(description, "User_Correction",
               IF got THEN model_call.value.transaction_type ELSE "N/A",
               extract_category_parts(corrected_category),
               IF got THEN model_call.value.intent ELSE "N/A",
               IF got THEN model_call.value.confidence ELSE { << "category", 100 >> },
               "user_correction")

\* STEP 1 of predict calling the classifier on the cleaned text whatever it is
predict_correction_unguarded(description, corrected_category, pred) ==
  LET parts == extract_category_parts(corrected_category)
      model_call ==
        IF ~pred.is_none
        THEN predict_with_model(pred, clean_text(description))
        ELSE Raised("not called")
      got == ~model_call.raised
  IN  Response(description, "User_Correction",
               IF got THEN model_call.value.transaction_type ELSE "N/A",
               parts,
               IF got THEN model_call.value.intent ELSE "N/A",
               { << "category", 100 >> },
               "user_correction")

\* STEP 1 of predict, a correction was found
predict_correction(description, corrected_category, pred) ==
  LET parts == extract_category_parts(corrected_category)
      clean_desc == clean_text(description)
      model_call ==
        IF ~pred.is_none /\ clean_desc # << >>
        THEN predict_with_model(pred, clean_desc)
        ELSE Raised("not called")
      got == ~model_call.raised
  IN  Response(description, "User_Correction",
               IF got THEN model_call.value.transaction_type ELSE "N/A",
               parts,
               IF got THEN model_call.value.intent ELSE "N/A",
               { << "category", 100 >> },
               "user_correction")

\* STEP 2 of predict with no try/except around _predictor.predict: what the
\* predictor raises leaves predict
predict_model_unguarded(description, pred) ==
  IF pred.is_none THEN ErrorResult("Model not loaded")
  ELSE
    LET call == DistilBertPredictor_predict(pred, description)
    IN  IF call.raised THEN call
        ELSE Response(description,
                      IF flag(call.value, "keyword_matched") THEN "Keyword_Match"
                      ELSE "DistilBERT",
                      call.value.transaction_type,
                      extract_category_parts(call.value.category),
                      call.value.intent, call.value.confidence,
                      IF flag(call.value, "keyword_matched") THEN "keyword_match"
                      ELSE "ml_prediction")

\* STEP 2 of predict, no correction was found
predict_model(description, pred) ==
  IF pred.is_none THEN ErrorResult("Model not loaded")
  ELSE
    LET call == DistilBertPredictor_predict(pred, description)
    IN  IF call.raised THEN ErrorResult(call.error)
        ELSE
          LET result == call.value
              parts  == extract_category_parts(result.category)
              by_correction == flag(result, "user_correction")
              by_keyword    == flag(result, "keyword_matched")
          IN  Response(description,
                       IF by_correction THEN "User_Correction"
                       ELSE IF by_keyword THEN "Keyword_Match" ELSE "DistilBERT",
                       result.transaction_type, parts, result.intent,
                       result.confidence,
                       IF by_correction THEN "user_correction"
                       ELSE IF by_keyword THEN "keyword_match" ELSE "ml_prediction")

\* predict(description), corrections being the cache after load_corrections()
predict(description, corrections, pred) ==
  IF description = << >> \/ str_strip(description) = << >>
  THEN ErrorResult("Empty description")
  ELSE
    LET corrected_category == get_corrected_category(description, corrections)
    IN  IF truthy(corrected_category)
        THEN predict_correction(description, corrected_category, pred)
        ELSE predict_model(description, pred)

(***************************************************************************)
(* inference_local.py: predict_batch                                       *)
(***************************************************************************)
\* the placeholder appended for an item that goes to the model
Placeholder == [ placeholder |-> TRUE ]

\* first pass: what is appended to results for one description
batch_first_pass(desc, corrections) ==
  IF desc = << >> \/ str_strip(desc) = << >>
  THEN ErrorResult("Empty description")
  ELSE
    LET corrected_category == get_corrected_category(desc, corrections)
    IN  IF truthy(corrected_category)
        THEN Response(desc, "User_Correction", "N/A",
                      extract_category_parts(corrected_category), "N/A",
                      { << "category", 100 >> }, "user_correction")
        ELSE Placeholder

\* second pass: the batch_result built from one _predictor.predict result
batch_model_result(desc, result) ==
  Response(desc, "DistilBERT", result.transaction_type,
           extract_category_parts(result.category), result.intent,
           result.confidence, "ml_prediction")

\* the increasing sequence of the members of a set of indices
RECURSIVE indices_in_order(_)
indices_in_order(S) ==
  IF S = { } THEN << >>
  ELSE << SetMin(S) >> \o indices_in_order(S \ { SetMin(S) })

\* position of idx in the sequence of indices
position(indices, idx) == CHOOSE k \in 1..Len(indices) : indices[k] = idx

\* predict_batch without the placeholders: the results of the first pass in
\* order, followed by the results of the model
predict_batch_appended(descriptions, corrections, pred) ==
  IF pred.is_none
  THEN [ i \in 1..Len(descriptions) |-> ErrorResult("Model not loaded") ]
  ELSE
    LET first == [ i \in 1..Len(descriptions) |->
                     batch_first_pass(descriptions[i], corrections) ]
        settled == indices_in_order({ i \in 1..Len(descriptions) : first[i] # Placeholder })
        indices_for_model ==
          indices_in_order({ i \in 1..Len(descriptions) : first[i] = Placeholder })
        calls == [ k \in 1..Len(indices_for_model) |->
                     DistilBertPredictor_predict(pred, descriptions[indices_for_model[k]]) ]
        failed == { k \in 1..Len(calls) : calls[k].raised }
    IN  [ k \in 1..Len(settled) |-> first[settled[k]] ]
        \o [ k \in 1..Len(indices_for_model) |->
               IF failed # { } THEN ErrorResult(calls[SetMin(failed)].error)
               ELSE batch_model_result(descriptions[indices_for_model[k]],
                                       calls[k].value) ]

\* predict_batch(descriptions), corrections being the cache after
\* load_corrections()
predict_batch(descriptions, corrections, pred) ==
  IF pred.is_none
  THEN [ i \in 1..Len(descriptions) |-> ErrorResult("Model not loaded") ]
  ELSE
    LET results == [ i \in 1..Len(descriptions) |->
                       batch_first_pass(descriptions[i], corrections) ]
        indices_for_model ==
          indices_in_order({ i \in 1..Len(descriptions) : results[i] = Placeholder })
        descriptions_for_model ==
          [ k \in 1..Len(indices_for_model) |-> descriptions[indices_for_model[k]] ]
        calls == [ k \in 1..Len(descriptions_for_model) |->
                     DistilBertPredictor_predict(pred, descriptions_for_model[k]) ]
        failed == { k \in 1..Len(calls) : calls[k].raised }
    IN  IF failed # { }
        THEN [ i \in 1..Len(descriptions) |->
                 IF results[i] = Placeholder
                 THEN ErrorResult(calls[SetMin(failed)].error)
                 ELSE results[i] ]
        ELSE [ i \in 1..Len(descriptions) |->
                 IF results[i] = Placeholder
                 THEN batch_model_result(
                        descriptions_for_model[position(indices_for_model, i)],
                        calls[position(indices_for_model, i)].value)
                 ELSE results[i] ]

(***************************************************************************)
(* inference_local.py: main                                                *)
(***************************************************************************)
\* json.dumps of a string that needs no escapes
json_string(s) == << "\"" >> \o s \o << "\"" >>

RECURSIVE json_items(_)
json_items(list) ==
  IF list = << >> THEN << >>
  ELSE IF Len(list) = 1 THEN json_string(list[1])
  ELSE json_string(Head(list)) \o << ",", " " >> \o json_items(Tail(list))

\* the JSON text of a list of strings, as the caller of the CLI passes it
json_array(list) == << "[" >> \o json_items(list) \o << "]" >>

\* json.loads(first_arg) on the texts handed to main: the list of strings
\* the text is the JSON array of, a JSONDecodeError for any other text
json_loads(text, lists) ==
  IF \E list \in lists : json_array(list) = text
  THEN [ ok |-> TRUE, value |-> CHOOSE list \in lists : json_array(list) = text ]
  ELSE [ ok |-> FALSE, value |-> << >> ]

real_error_any(result) == "error" \in DOMAIN result

\* a result that makes main exit with status 1
real_error(result) ==
  "error" \in DOMAIN result /\ result.error # "Empty description"

\* the end of main in batch mode
main_batch_exit(results) ==
  [ stdout |-> results,
    exit |-> IF \E i \in 1..Len(results) : real_error(results[i]) THEN 1 ELSE 0 ]

\* the end of main in single prediction mode
main_single_exit(result) ==
  [ stdout |-> result, exit |-> IF real_error(result) THEN 1 ELSE 0 ]

\* main() after load_corrections() and load_model(): what is printed to
\* stdout and the exit status.  argv is sys.argv[1:], lists the lists of
\* strings whose JSON text a caller passes
main(argv, corrections, pred, load_raised, lists) ==
  IF load_raised
  THEN [ stdout |-> ErrorResult("Failed to load model"), exit |-> 1 ]
  ELSE IF Len(argv) < 1
  THEN [ stdout |-> ErrorResult("Missing description argument"), exit |-> 1 ]
  ELSE
    LET first_arg == str_strip(argv[1])
    IN  IF first_arg # << >> /\ first_arg[1] = "["
        THEN
          LET descriptions == json_loads(first_arg, lists)
          IN  IF ~descriptions.ok
              THEN [ stdout |-> ErrorResult("Invalid JSON array"), exit |-> 1 ]
              ELSE main_batch_exit(
                     predict_batch(descriptions.value, corrections, pred))
        ELSE main_single_exit(predict(first_arg, corrections, pred))

(***************************************************************************)
(* add_correction.py                                                       *)
(***************************************************************************)
\* load_corrections() of add_correction.py: the list, or anything else the
\* file holds as JSON
ac_load_corrections(file) ==
  IF file.kind \in { "missing", "empty", "malformed" }
  THEN [ is_list |-> TRUE, records |-> << >> ]
  ELSE IF file.kind = "notlist"
  THEN [ is_list |-> FALSE, records |-> << >> ]
  ELSE [ is_list |-> TRUE, records |-> file.records ]

\* a character that the utf-8 codec cannot encode: a lone surrogate, which
\* is what sys.argv holds for a byte that is not UTF-8
SURROGATE == "U+DCE9"

utf8_encodable(s) == \A i \in 1..Len(s) : s[i] # SURROGATE

\* json.dump(corrections, f, ensure_ascii=False) runs to the end
json_dump_ok(corrections) ==
  \A i \in 1..Len(corrections) :
    /\ utf8_encodable(corrections[i].narration)
    /\ utf8_encodable(corrections[i].category)
    /\ utf8_encodable(corrections[i].userId)
    /\ utf8_encodable(corrections[i].transactionId)

\* save_corrections(corrections): the file afterwards.  open(.., 'w') has
\* emptied the file when json.dump starts; a dump that raises leaves the
\* part written so far, which is not JSON
save_corrections(corrections) ==
  IF json_dump_ok(corrections)
  THEN [ file |-> File("list", corrections), ret |-> TRUE ]
  ELSE [ file |-> File("malformed", << >>), ret |-> FALSE ]

\* the index of the first record the duplicate check of add_correction takes
\* for the new correction, 0 if there is none
duplicate_of(corrections, narration, category) ==
  LET hits == { i \in 1..Len(corrections) :
                  /\ str_lower(str_strip(corrections[i].narration)) = str_lower(narration)
                  /\ str_strip(corrections[i].category) = category }
  IN  IF hits = { } THEN 0 ELSE SetMin(hits)

\* userId.strip() if userId and userId.strip(), else nothing
optional(x) ==
  IF x = None \/ x = << >> \/ str_strip(x) = << >> THEN None ELSE str_strip(x)

\* add_correction(narration, category, userId, transactionId) at time now:
\* the file afterwards and what the call did
\* add_correction without the two checks of its arguments
add_correction_unchecked(file, narration_in, category_in, userId, transactionId, now) ==
  LET loaded == ac_load_corrections(file)
      corrections == loaded.records
      narration == str_strip(narration_in)
      category  == str_strip(category_in)
  IN  IF ~loaded.is_list
      THEN [ file |-> file, raised |-> TRUE, ret |-> FALSE ]
      ELSE
        LET dup == duplicate_of(corrections, narration, category)
            updated ==
              [ corrections EXCEPT ![dup] = [ @ EXCEPT !.timestamp = now ] ]
            appended ==
              Append(corrections,
                     Correction(narration, category, now,
                                optional(userId), optional(transactionId)))
            saved == save_corrections(IF dup > 0 THEN updated ELSE appended)
        IN  [ file |-> saved.file, raised |-> FALSE, ret |-> saved.ret ]

add_correction(file, narration_in, category_in, userId, transactionId, now) ==
  IF narration_in = << >> \/ str_strip(narration_in) = << >>
  THEN [ file |-> file, raised |-> FALSE, ret |-> FALSE ]
  ELSE IF category_in = << >> \/ str_strip(category_in) = << >>
  THEN [ file |-> file, raised |-> FALSE, ret |-> FALSE ]
  ELSE
    LET loaded == ac_load_corrections(file)
        corrections == loaded.records
        narration == str_strip(narration_in)
        category  == str_strip(category_in)
    IN  IF ~loaded.is_list
        THEN [ file |-> file, raised |-> TRUE, ret |-> FALSE ]
        ELSE
          LET dup == duplicate_of(corrections, narration, category)
              updated ==
                [ corrections EXCEPT
                    ![dup] = [ @ EXCEPT
                      !.timestamp = now,
                      !.userId = IF optional(userId) # None THEN optional(userId) ELSE @,
                      !.transactionId =
                        IF optional(transactionId) # None
                        THEN optional(transactionId) ELSE @ ] ]
              appended ==
                Append(corrections,
                       Correction(narration, category, now,
                                  optional(userId), optional(transactionId)))
              saved == save_corrections(IF dup > 0 THEN updated ELSE appended)
          IN  [ file |-> saved.file, raised |-> FALSE, ret |-> saved.ret ]

(***************************************************************************)
(* The processes.  An inference process (inference_local.py) holds the     *)
(* module globals _corrections_cache and _predictor; add_correction.py is  *)
(* run as a process of its own and shares only the file with it.           *)
(***************************************************************************)
VARIABLES
  corrections_file,   \* user_corrections.json
  corrections_cache,  \* _corrections_cache of the inference process
  predictor,          \* _predictor of the inference process
  file_reads,         \* how often the inference process has read the file
  clock,              \* datetime.now(), counted in calls of add_correction
  out                 \* the last call and what it returned

vars == << preprocessing_utils, corrections_file, corrections_cache, predictor,
          file_reads, clock, out >>

\* batches have at most MaxBatch items
MaxBatch == 3

\* batches have at most MaxProcessBatch items where the process also takes
\* single narrations and corrections are added beside it
MaxProcessBatch == 1

\* add_correction runs at most MaxAdds times beside the inference process
MaxAdds == 1

\* add_correction runs at most MaxStoreAdds times on the store alone
MaxStoreAdds == 3

NoPredictor ==
  [ is_none |-> TRUE, keyword_mappings |-> << >>, fails_on |-> None,
    category_label |-> None ]

\* DistilBertPredictor(model_path, categories_file), once constructed
Predictor(keyword_mappings, fails_on, category_label) ==
  [ is_none |-> FALSE, keyword_mappings |-> keyword_mappings, fails_on |-> fails_on,
    category_label |-> category_label ]

\* the category labels the classifier of the process decodes its answers to
Labels == { ModelResult.category }

\* the files an inference process may find when it starts
InitialFiles ==
  { File("missing", << >>), File("empty", << >>), File("malformed", << >>),
    File("notlist", << >>),
    File("list", << Correction(N_STARBUCKS, C_DINING_CAFES, 0, None, None) >>),
    File("list", << Correction(N_UPI_STARBUCKS, C_SHOPPING, 0, None, None),
                    Correction(N_STARBUCKS, C_DINING_CAFES, 0, None, None) >>) }

\* the batches handed to predict_batch
RECURSIVE SeqsUpTo(_, _)
SeqsUpTo(S, n) ==
  IF n = 0 THEN { << >> }
  ELSE LET shorter == SeqsUpTo(S, n - 1)
       IN  shorter \cup { Append(q, x) : q \in shorter, x \in S }

Batches == SeqsUpTo(BatchNarrations, MaxBatch)

ProcessBatches == SeqsUpTo(BatchNarrations, MaxProcessBatch)

\* what add_correction is called with beside the inference process
AddNarrations == { N_STARBUCKS, N_TXN }

AddCategories == { C_SHOPPING, C_DINING_CAFES }

\* sys.argv[1:] of python3 inference_local.py: nothing, a narration, the
\* JSON text of a batch, a text that starts like a JSON array and is none
MainArgvs ==
  { << >>, << << "[", "U", "P", "I" >> >> }
    \cup { << description >> : description \in BatchNarrations }
    \cup { << json_array(descriptions) >> : descriptions \in ProcessBatches }

Init ==
  /\ preprocessing_utils = [ preprocess_upi_narration |-> NormalizedP2P ]
  /\ corrections_file \in InitialFiles
  /\ corrections_cache = NoCache
  /\ predictor = NoPredictor
  /\ file_reads = 0
  /\ clock = 0
  /\ out = [ op |-> "process_start" ]

\* a new inference process: the module globals are None again
NewProcess ==
  /\ out.op # "process_start"
  /\ corrections_cache' = NoCache
  /\ predictor' = NoPredictor
  /\ file_reads' = 0
  /\ out' = [ op |-> "process_start" ]
  /\ UNCHANGED << preprocessing_utils, corrections_file, clock >>

\* the effect of a call of load_corrections() on the process
LoadsCorrections ==
  /\ corrections_cache' = load_corrections(corrections_cache, corrections_file)
  /\ file_reads' = IF load_reads_file(corrections_cache, corrections_file)
                   THEN file_reads + 1 ELSE file_reads

LoadCorrections ==
  /\ LoadsCorrections
  /\ out' = [ op |-> "load_corrections" ]
  /\ UNCHANGED << preprocessing_utils, corrections_file, predictor, clock >>

\* load_model(): get_predictor() constructs the predictor or raises
LoadModel(constructed, keyword_mappings, fails_on, category_label) ==
  /\ IF predictor.is_none
     THEN /\ LoadsCorrections
          /\ predictor' = IF constructed
                          THEN Predictor(keyword_mappings, fails_on, category_label)
                          ELSE NoPredictor
          /\ out' = [ op |-> "load_model", raised |-> ~constructed ]
     ELSE /\ UNCHANGED << corrections_cache, file_reads, predictor >>
          /\ out' = [ op |-> "load_model", raised |-> FALSE ]
  /\ UNCHANGED << preprocessing_utils, corrections_file, clock >>

Predict(description) ==
  /\ IF description = << >> \/ str_strip(description) = << >>
     THEN UNCHANGED << corrections_cache, file_reads >>
     ELSE LoadsCorrections
  /\ out' = [ op |-> "predict", input |-> description,
              result |-> predict(description, corrections_cache'.entries, predictor) ]
  /\ UNCHANGED << preprocessing_utils, corrections_file, predictor, clock >>

PredictBatch(descriptions) ==
  /\ LoadsCorrections
  /\ out' = [ op |-> "predict_batch", input |-> descriptions,
              result |-> predict_batch(descriptions, corrections_cache'.entries, predictor) ]
  /\ UNCHANGED << preprocessing_utils, corrections_file, predictor, clock >>

\* what the caller of the CLI sees of the process
main_out(argv, done) ==
  [ op |-> "main", argv |-> argv, stdout |-> done.stdout, exit |-> done.exit ]

\* python3 inference_local.py argv: a process of its own from its start to
\* its exit
Main(argv, constructed, keyword_mappings, fails_on, category_label) ==
  /\ out.op = "process_start"
  /\ LoadsCorrections
  /\ predictor' = IF constructed
                  THEN Predictor(keyword_mappings, fails_on, category_label)
                  ELSE NoPredictor
  /\ out' = main_out(argv, main(argv, corrections_cache'.entries, predictor',
                                ~constructed, ProcessBatches))
  /\ UNCHANGED << preprocessing_utils, corrections_file, clock >>

\* python3 add_correction.py narration category, beside the inference process
AddCorrection(narration, category) ==
  /\ clock < MaxAdds
  /\ LET done == add_correction(corrections_file, narration, category, None, None, clock + 1)
     IN  /\ corrections_file' = done.file
         /\ out' = [ op |-> "add_correction", raised |-> done.raised, ret |-> done.ret ]
  /\ clock' = clock + 1
  /\ UNCHANGED << preprocessing_utils, corrections_cache, predictor, file_reads >>

Next ==
  \/ NewProcess
  \/ LoadCorrections
  \/ \E constructed \in BOOLEAN, keyword_mappings \in { << >>, Taxonomy },
        fails_on \in FailingTexts, category_label \in Labels :
       LoadModel(constructed, keyword_mappings, fails_on, category_label)
  \/ \E description \in Narrations : Predict(description)
  \/ \E descriptions \in ProcessBatches : PredictBatch(descriptions)
  \/ \E narration \in AddNarrations, category \in AddCategories :
       AddCorrection(narration, category)
  \/ \E argv \in MainArgvs, constructed \in BOOLEAN,
        keyword_mappings \in { << >>, Taxonomy }, fails_on \in FailingTexts,
        category_label \in Labels :
       Main(argv, constructed, keyword_mappings, fails_on, category_label)

Spec == Init /\ [][Next]_vars

(***************************************************************************)
(* predict_batch alone: an inference process that loads the model and      *)
(* takes batches                                                           *)
(***************************************************************************)
InitialBatchFiles ==
  { File("missing", << >>),
    File("list", << Correction(N_STARBUCKS, C_DINING_CAFES, 0, None, None) >>) }

InitBatch ==
  /\ preprocessing_utils = [ preprocess_upi_narration |-> NormalizedP2P ]
  /\ corrections_file \in InitialBatchFiles
  /\ corrections_cache = NoCache
  /\ predictor = NoPredictor
  /\ file_reads = 0
  /\ clock = 0
  /\ out = [ op |-> "process_start" ]

NextBatch ==
  \/ \E constructed \in BOOLEAN, keyword_mappings \in { << >>, Taxonomy },
        fails_on \in FailingTexts, category_label \in Labels :
       LoadModel(constructed, keyword_mappings, fails_on, category_label)
  \/ \E descriptions \in Batches : PredictBatch(descriptions)

SpecBatch == InitBatch /\ [][NextBatch]_vars

(***************************************************************************)
(* The cascade over classifiers with other labels: an inference process    *)
(* that loads a model and resolves narrations, one at a time or in a batch *)
(***************************************************************************)
\* category labels a label decoder may hold: a path, and the empty string
CascadeLabels == { ModelResult.category, N_EMPTY }

NextCascade ==
  \/ \E constructed \in BOOLEAN, keyword_mappings \in { << >>, Taxonomy },
        fails_on \in FailingTexts, category_label \in CascadeLabels :
       LoadModel(constructed, keyword_mappings, fails_on, category_label)
  \/ \E description \in Narrations : Predict(description)
  \/ \E descriptions \in ProcessBatches : PredictBatch(descriptions)

SpecCascade == InitBatch /\ [][NextCascade]_vars

(***************************************************************************)
(* Loading the correction store: an inference process that finds the       *)
(* backing file in any of its conditions                                   *)
(***************************************************************************)
\* a list element that is no correction object
MALFORMED_RECORD == Correction(None, None, 0, None, None)

InitialLoadFiles ==
  { File("missing", << >>), File("empty", << >>), File("malformed", << >>),
    File("notlist", << >>),
    File("list", << Correction(N_STARBUCKS, C_DINING_CAFES, 0, None, None) >>),
    File("list", << MALFORMED_RECORD,
                    Correction(N_STARBUCKS, C_DINING_CAFES, 0, None, None) >>),
    File("list", << Correction(N_STARBUCKS, C_DINING_CAFES, 0, None, None),
                    MALFORMED_RECORD >>),
    File("list", << Correction(N_TXN, C_SHOPPING, 0, None, None) >>) }

\* a taxonomy with a keyword for a narration that normalizes to nothing
TaxonomyWithTxn == Taxonomy \o << << <<"t","x","n">>, C_FUNDS >> >>

InitLoad ==
  /\ preprocessing_utils = [ preprocess_upi_narration |-> NormalizedP2P ]
  /\ corrections_file \in InitialLoadFiles
  /\ corrections_cache = NoCache
  /\ predictor = NoPredictor
  /\ file_reads = 0
  /\ clock = 0
  /\ out = [ op |-> "process_start" ]

NextLoad ==
  \/ LoadCorrections
  \/ \E constructed \in BOOLEAN,
        keyword_mappings \in { << >>, Taxonomy, TaxonomyWithTxn },
        fails_on \in FailingTexts, category_label \in Labels :
       LoadModel(constructed, keyword_mappings, fails_on, category_label)
  \/ \E description \in Narrations : Predict(description)

SpecLoad == InitLoad /\ [][NextLoad]_vars

(***************************************************************************)
(* The functions of the modules on inputs of their own: a process that has *)
(* imported the modules calls them one after the other                     *)
(***************************************************************************)
\* keyword lists have at most MaxKeywords entries
MaxKeywords == 2

T_MUTUAL_DEPOSIT ==
  <<"m","u","t","u","a","l"," ","f","u","n","d"," ","d","e","p","o","s","i","t">>

T_MUTUAL_UPPER == <<"M","U","T","U","A","L"," ","F","U","N","D">>

T_FUND_ZOMATO == <<"f","u","n","d","-","z","o","m","a","t","o">>

T_REFUND == <<"r","e","f","u","n","d">>

\* the texts handed to match_keywords
KeywordTexts ==
  { N_EMPTY, N_RENT, N_ZOMATO, T_MUTUAL_DEPOSIT, T_MUTUAL_UPPER, T_FUND_ZOMATO,
    T_REFUND }

\* the (keyword, category) entries a keyword list is made of
KeywordEntries ==
  { Taxonomy[i] : i \in 1..Len(Taxonomy) }
    \cup { << <<"F","u","n","d">>, C_TRAVEL_CAB >> }

KeywordLists == SeqsUpTo(KeywordEntries, MaxKeywords)

\* top-level category names: plain, with a slash, empty, ending in " /",
\* and with a trailing blank
TopCategories ==
  { <<"D","i","n","i","n","g">>, <<"A","/","B">>, << >>, <<"A">>,
    <<"A"," ","/">>, <<"D","i","n","i","n","g"," ">> }

\* subcategory names: plain, empty, with a separator of its own, beginning
\* with "/ ", and with a leading blank
Subcategories ==
  { <<"C","a","f","e","s">>, << >>, <<"X"," ","/"," ","Y">>, <<"/"," ","B">>,
    <<"B">>, <<" ","C","a","f","e","s">> }

\* f"{top_name} / {subcat_name}"
full_category_name(top_name, subcat_name) ==
  top_name \o CATEGORY_SEPARATOR \o subcat_name

\* the category strings handed to extract_category_parts
CategoryStrings ==
  TopCategories
    \cup { full_category_name(top_name, subcat_name) :
             top_name \in TopCategories, subcat_name \in Subcategories }

X_REF_TXN_NO == <<"R","E","F"," ","T","X","N"," ","N","O">>

X_PAYMENT_FOR_RENT ==
  <<"U","P","I","/","P","A","Y","M","E","N","T","/","F","O","R","/","R","E","N","T">>

X_TWO_HANDLES ==
  <<"U","P","I","-","x","@","y","b","l","-","x","@","y","b","l">>

X_LEADING_ID ==
  <<"U","P","I","-","1","2","3","4","5","6","7","8","9","-","R","E","N","T">>

X_TRAILING_ID ==
  <<"R","E","N","T","-","1","2","3","4","5","6","7","8","9">>

\* the narrations handed to preprocess_upi_narration
NormalizerTexts ==
  { N_BLANK, N_RENT, N_STARBUCKS, N_TXN, N_ZOMATO, X_REF_TXN_NO,
    X_PAYMENT_FOR_RENT, X_TWO_HANDLES, X_LEADING_ID, X_TRAILING_ID }

\* keyword lists of categories.yml have at most MaxConfigKeywords entries
MaxConfigKeywords == 2

\* the keywords of categories.yml: mixed case, padded, whitespace only, and
\* an entry that is no string
ConfigKeywords ==
  { <<"Z","o","m","a","t","o">>, <<" ","f","u","n","d"," ">>, <<" ">>, None }

ConfigKeywordLists == SeqsUpTo(ConfigKeywords, MaxConfigKeywords)

\* a category with one subcategory, and a category with keywords of its own
ConfigCategories ==
  { [ has_name |-> TRUE, name |-> <<"D","i","n","i","n","g">>,
      has_subcategories |-> TRUE,
      subcategories |-> << [ has_name |-> has_name,
                             name |-> <<"F","o","o","d">>,
                             keywords |-> keywords ] >>,
      keywords |-> << >> ] :
      has_name \in BOOLEAN, keywords \in ConfigKeywordLists }
    \cup
  { [ has_name |-> has_name, name |-> N_RENT, has_subcategories |-> FALSE,
      subcategories |-> << >>, keywords |-> keywords ] :
      has_name \in BOOLEAN, keywords \in ConfigKeywordLists }

\* the categories.yml files handed to load_keyword_mappings
CategoriesFiles ==
  { [ kind |-> kind, categories |-> << >> ] :
      kind \in { "missing", "malformed", "empty" } }
    \cup { [ kind |-> "config", categories |-> << cat >> ] :
             cat \in ConfigCategories }

\* keywords for the keyword stage: one in the raw and the cleaned narration,
\* one in the raw narration only (it spans the handle), one in the cleaned
\* narration only (it spans a separator)
StageEntries ==
  { << <<"s","t","a","r","b","u","c","k","s">>, C_DINING_CAFES >>,
    << <<"s","t","a","r","b","u","c","k","s","@","p","a","y","t","m">>,
       C_SHOPPING >>,
    << <<"z","o","m","a","t","o"," ","1">>, C_DELIVERY >>,
    << <<"u","p","i">>, C_FUNDS >> }

StageLists == SeqsUpTo(StageEntries, MaxKeywords)

\* texts with runs of separators and of whitespace, inside and at the ends,
\* and P2P texts that the two modes of the normalizer treat differently
X_SEPARATOR_RUN == <<"A","-","-","/","B">>

X_WHITESPACE_RUN == <<"A"," ","\t"," ","B">>

X_SEPARATOR_ENDS == <<"-","/","R","E","N","T","/","-"," ">>

X_TAB_NEWLINE == <<"\t","\n">>

X_NOISE_BETWEEN == <<"A","-","T","X","N","-","B">>

X_PAYMENT_FOR_FRIEND ==
  <<"P","A","Y","M","E","N","T"," ","F","O","R"," ","F","R","I","E","N","D">>

X_HANDLE_GIFT == <<"X","@"," ","G","i","f","t">>

ShapeTexts ==
  { X_SEPARATOR_RUN, X_WHITESPACE_RUN, X_SEPARATOR_ENDS, X_TAB_NEWLINE,
    X_NOISE_BETWEEN, X_PAYMENT_FOR_FRIEND, X_HANDLE_GIFT }

\* what preprocess_upi_narration is called with
NormalizerInputs ==
  NormalizerTexts \cup ShapeTexts \cup { N_EMPTY, None, NOT_A_STRING }

InitFunctions ==
  /\ preprocessing_utils = [ preprocess_upi_narration |-> NormalizedP2P ]
  /\ corrections_file = File("missing", << >>)
  /\ corrections_cache = NoCache
  /\ predictor = NoPredictor
  /\ file_reads = 0
  /\ clock = 0
  /\ out = [ op |-> "process_start" ]

MatchKeywords(narration, keyword_mappings) ==
  /\ out.op = "process_start"
  /\ out' = [ op |-> "match_keywords", narration |-> narration,
              keyword_mappings |-> keyword_mappings,
              result |-> match_keywords(narration, keyword_mappings) ]
  /\ UNCHANGED << preprocessing_utils, corrections_file, corrections_cache,
                  predictor, file_reads, clock >>

ExtractCategoryParts(category) ==
  /\ out.op = "process_start"
  /\ out' = [ op |-> "extract_category_parts", category |-> category,
              result |-> extract_category_parts(category) ]
  /\ UNCHANGED << preprocessing_utils, corrections_file, corrections_cache,
                  predictor, file_reads, clock >>

\* preprocess_upi_narration(text, preserve_p2p_clues=False)
PreprocessUpiNarration(text) ==
  /\ out.op = "process_start"
  /\ out' = [ op |-> "preprocess_upi_narration", text |-> text,
              result |-> preprocess_upi_narration(text, FALSE) ]
  /\ UNCHANGED << preprocessing_utils, corrections_file, corrections_cache,
                  predictor, file_reads, clock >>

\* the call with preserve_p2p_clues=True, the default of the parameter
PreprocessUpiNarrationP2P(text) ==
  /\ out.op = "process_start"
  /\ out' = [ op |-> "preprocess_upi_narration_p2p", text |-> text,
              result |-> preprocess_upi_narration(text, TRUE) ]
  /\ UNCHANGED << preprocessing_utils, corrections_file, corrections_cache,
                  predictor, file_reads, clock >>

\* the same call on the text that the call before returned
PreprocessUpiNarrationAgain ==
  /\ out.op = "preprocess_upi_narration"
  /\ out' = [ op |-> "preprocess_upi_narration_again", text |-> out.text,
              once |-> out.result,
              result |-> preprocess_upi_narration(out.result, FALSE) ]
  /\ UNCHANGED << preprocessing_utils, corrections_file, corrections_cache,
                  predictor, file_reads, clock >>

LoadKeywordMappings(categories_file) ==
  /\ out.op = "process_start"
  /\ out' = [ op |-> "load_keyword_mappings", categories_file |-> categories_file,
              result |-> load_keyword_mappings(categories_file) ]
  /\ UNCHANGED << preprocessing_utils, corrections_file, corrections_cache,
                  predictor, file_reads, clock >>

\* DistilBertPredictor.predict of a predictor with the keyword list, whose
\* classifier answers
PredictorPredict(narration, keyword_mappings) ==
  /\ out.op = "process_start"
  /\ out' = [ op |-> "DistilBertPredictor.predict", narration |-> narration,
              keyword_mappings |-> keyword_mappings,
              result |-> DistilBertPredictor_predict(
                           Predictor(keyword_mappings, None, ModelResult.category),
                           narration) ]
  /\ UNCHANGED << preprocessing_utils, corrections_file, corrections_cache,
                  predictor, file_reads, clock >>

\* the functions keep no state, so a call does not depend on the calls made
\* before it: a behaviour is one call, and for the normalizer a second call
\* on what the first returned
NextFunctions ==
  \/ \E narration \in Narrations, keyword_mappings \in StageLists :
       PredictorPredict(narration, keyword_mappings)
  \/ \E categories_file \in CategoriesFiles :
       LoadKeywordMappings(categories_file)
  \/ \E narration \in KeywordTexts, keyword_mappings \in KeywordLists :
       MatchKeywords(narration, keyword_mappings)
  \/ \E category \in CategoryStrings : ExtractCategoryParts(category)
  \/ \E text \in NormalizerInputs : PreprocessUpiNarration(text)
  \/ \E text \in NormalizerInputs : PreprocessUpiNarrationP2P(text)
  \/ PreprocessUpiNarrationAgain

SpecFunctions == InitFunctions /\ [][NextFunctions]_vars

(***************************************************************************)
(* The store alone: add_correction.py run again and again                  *)
(***************************************************************************)
\* "caf" and a byte that is not UTF-8, as sys.argv gives it
C_UNENCODABLE == <<"c","a","f",SURROGATE>>

StoreNarrations == { N_STARBUCKS, N_STARBUCKS_UPPER, N_BLANK }

StoreCategories == { C_DINING_CAFES, C_SHOPPING, C_UNENCODABLE, N_EMPTY }

StoreUserIds == { None, <<"u","1">> }

StoreTransactionIds == { None, <<"t","1">> }

InitStore ==
  /\ preprocessing_utils = [ preprocess_upi_narration |-> NormalizedP2P ]
  /\ corrections_file \in { File("missing", << >>), File("empty", << >>) }
  /\ corrections_cache = NoCache
  /\ predictor = NoPredictor
  /\ file_reads = 0
  /\ clock = 0
  /\ out = [ op |-> "process_start" ]

\* python3 add_correction.py narration category [userId [transactionId]]
StoreAddCorrection(narration, category, userId, transactionId) ==
  /\ clock < MaxStoreAdds
  /\ LET done == add_correction(corrections_file, narration, category,
                                userId, transactionId, clock + 1)
     IN  /\ corrections_file' = done.file
         /\ out' = [ op |-> "add_correction", narration |-> narration,
                     category |-> category, userId |-> userId,
                     transactionId |-> transactionId,
                     raised |-> done.raised, ret |-> done.ret ]
  /\ clock' = clock + 1
  /\ UNCHANGED << preprocessing_utils, corrections_cache, predictor, file_reads >>

NextStore ==
  \E narration \in StoreNarrations, category \in StoreCategories,
     userId \in StoreUserIds, transactionId \in StoreTransactionIds :
    StoreAddCorrection(narration, category, userId, transactionId)

SpecStore == InitStore /\ [][NextStore]_vars

(***************************************************************************)
(* Properties                                                              *)
(***************************************************************************)
\* the key of a narration in the correction map: normalized with
\* preserve_p2p_clues=True, lower-cased, trimmed
CorrectionKey(narration) == str_strip(str_lower(preprocess_p2p(narration)))

\* the last call was predict(description) and returned result
Predicted(description, result) ==
  out.op = "predict" /\ out.input = description /\ out.result = result

\* result carries the category and subcategory that full_category decomposes to
HasCategory(result, full_category) ==
  LET parts == extract_category_parts(full_category)
  IN  /\ result.predicted_category = parts.top
      /\ IF truthy(parts.sub)
         THEN /\ "predicted_subcategory" \in DOMAIN result
              /\ result.predicted_subcategory = parts.sub
         ELSE \/ "predicted_subcategory" \notin DOMAIN result
              \/ result.predicted_subcategory = None

\* C1: Correction precedence.  Whenever predict() has resolved a narration
\* whose correction-store key is in the loaded correction map, the result
\* carries the category and subcategory decomposed from the stored correction
\* and is labelled User_Correction, whatever the taxonomy and the classifier
\* are; the classifier shows only in transaction_type and intent, which are
\* its answer or "N/A".
C1_CorrectionPrecedence ==
  ( /\ out.op = "predict"
    /\ CorrectionKey(out.input) \in dict_keys(corrections_cache.entries) )
  => /\ "error" \notin DOMAIN out.result
     /\ HasCategory(out.result,
                    dict_get(corrections_cache.entries, CorrectionKey(out.input)))
     /\ out.result.model_type = "User_Correction"
     /\ out.result.reason = "user_correction"
     /\ out.result.confidence = { << "category", 100 >> }
     /\ out.result.transaction_type \in { "N/A", ModelResult.transaction_type }
     /\ out.result.intent \in { "N/A", ModelResult.intent }

\* C1 happens: a narration with the correction Shopping is resolved while a
\* taxonomy keyword (Dining / Cafes) matches it and the classifier answers
\* Travel / Cab
C1_Witness ==
  /\ out.op = "predict"
  /\ out.input = N_UPI_STARBUCKS
  /\ dict_get(corrections_cache.entries, CorrectionKey(N_UPI_STARBUCKS)) = C_SHOPPING
  /\ ~predictor.is_none
  /\ predictor.keyword_mappings = Taxonomy
  /\ predictor.fails_on = None
  /\ out.result.predicted_category = C_SHOPPING
  /\ out.result.transaction_type = "P2C"

\* C2: Cascade order.  Whenever predict() has resolved a non-empty narration
\* with the classifier loaded: a matching correction decides the category;
\* otherwise a matching keyword decides it (Keyword_Match, the keyword's
\* category); the classifier's category is returned only when neither a
\* correction nor a keyword matches.
C2_CascadeOrder ==
  ( /\ out.op = "predict"
    /\ str_strip(out.input) # << >>
    /\ ~predictor.is_none )
  => LET corrected == get_corrected_category(out.input, corrections_cache.entries)
         keyword   == keyword_matched_category(predictor.keyword_mappings, out.input)
     IN  IF truthy(corrected)
         THEN /\ "error" \notin DOMAIN out.result
              /\ HasCategory(out.result, corrected)
              /\ out.result.model_type = "User_Correction"
         ELSE IF truthy(keyword)
         THEN /\ "error" \notin DOMAIN out.result
              /\ HasCategory(out.result, keyword)
              /\ out.result.model_type = "Keyword_Match"
         ELSE \/ "error" \in DOMAIN out.result
              \/ /\ out.result.model_type = "DistilBERT"
                 /\ \/ HasCategory(out.result, ModelResult.category)
                    \/ HasCategory(out.result, Uncategorized)

\* C2 happens: no correction matches, a keyword matches and decides
C2_Witness ==
  /\ out.op = "predict"
  /\ out.input = N_ZOMATO
  /\ ~predictor.is_none
  /\ ~truthy(get_corrected_category(N_ZOMATO, corrections_cache.entries))
  /\ "error" \notin DOMAIN out.result
  /\ out.result.model_type = "Keyword_Match"
  /\ out.result.predicted_category = C_DINING

\* the two results agree on the field: both lack it, or both have it with
\* the same value
SameField(a, b, field) ==
  /\ (field \in DOMAIN a) = (field \in DOMAIN b)
  /\ (field \in DOMAIN a) => a[field] = b[field]

AnswerFields ==
  { "predicted_category", "predicted_subcategory", "transaction_type", "intent",
    "confidence", "model_type", "reason" }

SameAnswer(a, b) == \A field \in AnswerFields : SameField(a, b, field)

\* C3: Batch and single resolution give identical answers.  Whenever
\* predict_batch has returned, the result at every index i agrees with what
\* predict gives for the narration at i under the same correction map,
\* taxonomy and classifier, in predicted_category, predicted_subcategory,
\* transaction_type, intent, confidence, model_type and reason.
C3_BatchEqualsSingle ==
  out.op = "predict_batch"
  => \A i \in 1..Len(out.input) :
       SameAnswer(out.result[i],
                  predict(out.input[i], corrections_cache.entries, predictor))

\* C3's case happens: a batch with a correction hit and a keyword hit is
\* resolved by a loaded classifier that raises on nothing
C3_Witness ==
  /\ out.op = "predict_batch"
  /\ out.input = << N_UPI_STARBUCKS, N_ZOMATO >>
  /\ ~predictor.is_none
  /\ predictor.keyword_mappings = Taxonomy
  /\ predictor.fails_on = None
  /\ truthy(get_corrected_category(N_UPI_STARBUCKS, corrections_cache.entries))
  /\ out.result[1].model_type = "User_Correction"
  /\ "error" \notin DOMAIN out.result[2]

\* resolving the item fails: it is empty, or it goes to the cascade of the
\* predictor and that raises
ItemFails(description) ==
  \/ str_strip(description) = << >>
  \/ /\ ~predictor.is_none
     /\ ~truthy(get_corrected_category(description, corrections_cache.entries))
     /\ DistilBertPredictor_predict(predictor, description).raised

\* the list without its item at index j
WithoutItem(items, j) ==
  [ i \in 1..(Len(items) - 1) |-> IF i < j THEN items[i] ELSE items[i + 1] ]

\* C4: Batch failure isolation.  Whenever predict_batch has returned and the
\* item at index j fails, every other item has the result it has in the
\* batch without item j.
C4_BatchFailureIsolation ==
  out.op = "predict_batch"
  => \A j \in 1..Len(out.input) :
       ItemFails(out.input[j])
       => LET others == predict_batch(WithoutItem(out.input, j),
                                      corrections_cache.entries, predictor)
          IN  WithoutItem(out.result, j) = others

\* C4's case happens: a batch whose first item makes the classifier raise
\* and whose second item the cascade resolves when it is alone
C4_Witness ==
  /\ out.op = "predict_batch"
  /\ out.input = << N_ZOMATO, N_UPI_STARBUCKS >>
  /\ ItemFails(N_ZOMATO)
  /\ ~ItemFails(N_UPI_STARBUCKS)
  /\ ~truthy(get_corrected_category(N_UPI_STARBUCKS, corrections_cache.entries))

\* result is what predict_batch can return for the narration: with no
\* predictor the "Model not loaded" error; for an empty narration the
\* "Empty description" error; else the result of the narration resolved
\* alone, or, for an item sent to the predictor, the error of the batch
ResultFor(result, description) ==
  IF predictor.is_none THEN result = ErrorResult("Model not loaded")
  ELSE IF str_strip(description) = << >>
  THEN result = ErrorResult("Empty description")
  ELSE \/ result = predict_batch(<< description >>, corrections_cache.entries,
                                 predictor)[1]
       \/ /\ ~truthy(get_corrected_category(description, corrections_cache.entries))
          /\ result = ErrorResult("inference failed")

\* C5: Batch shape.  Whenever predict_batch has returned, the list of results
\* is as long as the list of narrations and the result at every index i is a
\* result for the narration at index i: it repeats that narration as its
\* description unless it is an error, whatever the mix of empty items,
\* correction hits and model-resolved items and whether or not the
\* classifier is loaded.
C5_BatchShape ==
  out.op = "predict_batch"
  => /\ Len(out.result) = Len(out.input)
     /\ \A i \in 1..Len(out.input) :
          /\ ResultFor(out.result[i], out.input[i])
          /\ \/ "error" \in DOMAIN out.result[i]
             \/ out.result[i].description = out.input[i]

\* C5's case happens: a batch of a model-resolved item, an empty item and a
\* correction hit, in this order
C5_Witness ==
  /\ out.op = "predict_batch"
  /\ out.input = << N_ZOMATO, N_EMPTY, N_UPI_STARBUCKS >>
  /\ ~predictor.is_none
  /\ "model_type" \in DOMAIN out.result[1]
  /\ out.result[1].model_type = "DistilBERT"
  /\ out.result[2] = ErrorResult("Empty description")
  /\ "model_type" \in DOMAIN out.result[3]
  /\ out.result[3].model_type = "User_Correction"

\* C6: Scenario 4.  With the correction Starbucks -> Dining / Cafes in the
\* loaded correction map, predict("UPI-STARBUCKS-999@paytm") returns category
\* Dining, subcategory Cafes, labelled User_Correction, the key of the stored
\* narration and the key of the raw narration being equal.
C6_Scenario4 ==
  ( /\ out.op = "predict"
    /\ out.input = N_SCENARIO4
    /\ << CorrectionKey(N_STARBUCKS), C_DINING_CAFES >> \in corrections_cache.entries )
  => /\ CorrectionKey(N_SCENARIO4) = CorrectionKey(N_STARBUCKS)
     /\ out.result.predicted_category = C_DINING
     /\ "predicted_subcategory" \in DOMAIN out.result
     /\ out.result.predicted_subcategory = C_CAFES
     /\ "model_type" \in DOMAIN out.result
     /\ out.result.model_type = "User_Correction"

\* C6's case happens: the narration of Scenario 4 has been resolved with the
\* correction of Scenario 4 loaded from the file
C6_Witness ==
  /\ out.op = "predict"
  /\ out.input = N_SCENARIO4
  /\ corrections_file = File("list", << Correction(N_STARBUCKS, C_DINING_CAFES, 0, None, None) >>)
  /\ corrections_cache.entries = { << CorrectionKey(N_STARBUCKS), C_DINING_CAFES >> }

\* the key of a narration as the correction store derives it: normalized,
\* lower-cased and trimmed, the raw narration lower-cased and trimmed when
\* that is empty
StoreKey(narration) ==
  IF CorrectionKey(str_strip(narration)) # << >>
  THEN CorrectionKey(str_strip(narration))
  ELSE str_strip(str_lower(narration))

\* the records of the backing file
Records(file) == IF file.kind = "list" THEN file.records ELSE << >>

\* C7: Key-derivation consistency.  In every step that loads the correction
\* map, every record (N, C) of the backing store is entered under the key
\* StoreKey(N), and for every record whose key no later record has,
\* get_corrected_category(N) on the loaded map returns C, also when N
\* normalizes to the empty string.
C7_KeyDerivationConsistency ==
  [][ ( corrections_cache.is_none /\ ~corrections_cache'.is_none )
      => LET records == Records(corrections_file)
         IN  \A i \in 1..Len(records) :
               /\ StoreKey(records[i].narration) \in dict_keys(corrections_cache'.entries)
               /\ ( \A j \in (i + 1)..Len(records) :
                      StoreKey(records[j].narration) # StoreKey(records[i].narration) )
                  => get_corrected_category(records[i].narration,
                                            corrections_cache'.entries)
                       = records[i].category ]_vars

\* C7's case happens: a correction whose narration is pure noise has been
\* loaded from the file and found by predict
C7_Witness ==
  /\ out.op = "predict"
  /\ out.input = N_TXN
  /\ CorrectionKey(N_TXN) = << >>
  /\ \E i \in 1..Len(Records(corrections_file)) :
       Records(corrections_file)[i].narration = N_TXN
  /\ "model_type" \in DOMAIN out.result
  /\ out.result.model_type = "User_Correction"

\* the narrations are the same to the store: trimmed, letter case apart
SameNarration(a, b) == str_lower(str_strip(a)) = str_lower(str_strip(b))

\* the record holds the pair
HoldsPair(record, narration, category) ==
  SameNarration(record.narration, narration) /\ str_strip(record.category) = category

\* no two records of the list hold the same (narration, category) pair
NoDuplicate(records) ==
  \A i, j \in 1..Len(records) :
    HoldsPair(records[i], records[j].narration, records[j].category) => i = j

\* C8: Upsert does not duplicate.  After every add_correction call that is
\* given a narration and a category, no two records of the store hold the
\* same (narration, category) pair; if the pair was stored before the call,
\* the number of records is unchanged, the record of the pair keeps its pair
\* and every other record is unchanged; if the narration was stored with
\* other categories only, a record of the pair is appended.
C8_UpsertNoDuplicate ==
  [][ ( /\ out'.op = "add_correction"
        /\ str_strip(out'.narration) # << >>
        /\ str_strip(out'.category) # << >> )
      => LET before    == Records(corrections_file)
             after     == Records(corrections_file')
             narration == str_strip(out'.narration)
             category  == str_strip(out'.category)
             same == { i \in 1..Len(before) : HoldsPair(before[i], narration, category) }
         IN  /\ NoDuplicate(after)
             /\ same # { }
                => /\ Len(after) = Len(before)
                   /\ \A i \in 1..Len(before) :
                        IF i \in same
                        THEN /\ after[i].narration = before[i].narration
                             /\ after[i].category = before[i].category
                        ELSE after[i] = before[i]
             /\ ( /\ same = { }
                  /\ \E i \in 1..Len(before) :
                       SameNarration(before[i].narration, narration) )
                => /\ Len(after) = Len(before) + 1
                   /\ SubSeq(after, 1, Len(before)) = before
                   /\ HoldsPair(after[Len(after)], narration, category) ]_vars

\* C8's case happens: the store holds a narration under two categories and
\* a pair has been added again, which moved the timestamp of its record past
\* the number of records
C8_Witness ==
  /\ out.op = "add_correction"
  /\ out.ret
  /\ Len(Records(corrections_file)) = 2
  /\ SameNarration(Records(corrections_file)[1].narration,
                   Records(corrections_file)[2].narration)
  /\ Records(corrections_file)[1].category # Records(corrections_file)[2].category
  /\ \E i \in 1..2 : Records(corrections_file)[i].timestamp = 3

\* C9: Corrections are never deleted.  In every step, every (narration,
\* category) record that is in the backing store before an add_correction
\* call is in it after the call, and the number of records does not decrease.
C9_NeverDeleted ==
  [][ LET before == Records(corrections_file)
          after  == Records(corrections_file')
      IN  /\ Len(after) >= Len(before)
          /\ \A i \in 1..Len(before) :
               \E j \in 1..Len(after) :
                 HoldsPair(after[j], before[i].narration, before[i].category) ]_vars

\* C9's case happens: after an earlier call, add_correction has been given a
\* narration and a category and has failed to write the store
C9_Witness ==
  /\ out.op = "add_correction"
  /\ ~out.ret
  /\ str_strip(out.narration) # << >>
  /\ str_strip(out.category) # << >>
  /\ clock >= 2
  /\ corrections_file.kind = "malformed"

\* C10: Load-once, no live invalidation.  In every step of one process the
\* backing store has been read at most once, and once the correction map is
\* loaded no load_corrections, load_model, predict, predict_batch or
\* add_correction call changes it; only a new process starts with no map.
C10_LoadOnce ==
  [][ out'.op # "process_start"
      => /\ file_reads' <= 1
         /\ ~corrections_cache.is_none => corrections_cache' = corrections_cache ]_vars

\* C10's case happens: a correction written to the store after the load is
\* not found by predict in the same process
C10_Witness ==
  /\ out.op = "predict"
  /\ out.input = N_TXN
  /\ file_reads = 1
  /\ \E i \in 1..Len(Records(corrections_file)) :
       Records(corrections_file)[i].narration = N_TXN
  /\ get_corrected_category(N_TXN, corrections_cache.entries) = None
  /\ \/ "model_type" \notin DOMAIN out.result
     \/ out.result.model_type # "User_Correction"

\* the narration has a stored correction and no classifier answers for it:
\* none is loaded, or its call on the cleaned narration raises
HitWithoutClassifier(description) ==
  /\ truthy(get_corrected_category(description, corrections_cache.entries))
  /\ \/ predictor.is_none
     \/ predict_with_model(predictor, clean_text(description)).raised

\* the result of a correction hit for which no classifier answers
CorrectionOnly(description) ==
  Response(description, "User_Correction", "N/A",
           extract_category_parts(
             get_corrected_category(description, corrections_cache.entries)),
           "N/A", { << "category", 100 >> }, "user_correction")

\* the narrations the CLI was asked to resolve
MainDescriptions(argv) ==
  IF argv = << >> THEN << >>
  ELSE IF str_strip(argv[1]) # << >> /\ str_strip(argv[1])[1] = "["
  THEN json_loads(str_strip(argv[1]), ProcessBatches).value
  ELSE << str_strip(argv[1]) >>

\* what the CLI printed for the narrations it was asked to resolve
MainResults(stdout) ==
  IF /\ ~predictor.is_none
     /\ out.argv # << >>
     /\ str_strip(out.argv[1]) # << >>
     /\ str_strip(out.argv[1])[1] = "["
     /\ json_loads(str_strip(out.argv[1]), ProcessBatches).ok
  THEN stdout ELSE << stdout >>

\* C11: Correction hit without a classifier.  Whenever a narration that has
\* a stored correction has been resolved while no classifier is loaded or
\* the classifier's call raises, the result carries the correction's category
\* and subcategory, model_type User_Correction, transaction_type "N/A",
\* intent "N/A" and confidence {category: 1.0}: as result of predict, as the
\* item's result of predict_batch, and as the output of the CLI.
C11_CorrectionHitWithoutClassifier ==
  /\ out.op = "predict" /\ HitWithoutClassifier(out.input)
     => out.result = CorrectionOnly(out.input)
  /\ out.op = "predict_batch"
     => \A i \in 1..Len(out.input) :
          HitWithoutClassifier(out.input[i])
          => out.result[i] = CorrectionOnly(out.input[i])
  /\ out.op = "main"
     => \A i \in 1..Len(MainDescriptions(out.argv)) :
          HitWithoutClassifier(MainDescriptions(out.argv)[i])
          => /\ Len(MainResults(out.stdout)) = Len(MainDescriptions(out.argv))
             /\ MainResults(out.stdout)[i]
                  = CorrectionOnly(MainDescriptions(out.argv)[i])

\* C11's case happens: predict has resolved a narration with a stored
\* correction while no classifier was loaded
C11_Witness ==
  /\ out.op = "predict"
  /\ out.input = N_UPI_STARBUCKS
  /\ predictor.is_none
  /\ HitWithoutClassifier(N_UPI_STARBUCKS)
  /\ out.result.model_type = "User_Correction"
  /\ out.result.transaction_type = "N/A"

\* no correction matches the narration, a keyword of the loaded taxonomy
\* does, and the call of the classifier on the cleaned narration raises
KeywordHitFailingClassifier(description) ==
  /\ str_strip(description) # << >>
  /\ ~predictor.is_none
  /\ ~truthy(get_corrected_category(description, corrections_cache.entries))
  /\ truthy(keyword_matched_category(predictor.keyword_mappings, description))
  /\ predict_with_model(predictor, clean_text(description)).raised

\* C12: Keyword hit with a failing classifier.  Whenever predict has
\* resolved a narration that no correction matches and a taxonomy keyword
\* matches while the classifier's call raises, the result is no error: it
\* carries the keyword's category, model_type Keyword_Match, and
\* transaction_type and intent "N/A".
C12_KeywordHitFailingClassifier ==
  ( out.op = "predict" /\ KeywordHitFailingClassifier(out.input) )
  => /\ "error" \notin DOMAIN out.result
     /\ HasCategory(out.result,
                    keyword_matched_category(predictor.keyword_mappings, out.input))
     /\ "model_type" \in DOMAIN out.result
     /\ out.result.model_type = "Keyword_Match"
     /\ out.result.transaction_type = "N/A"
     /\ out.result.intent = "N/A"

\* C12's case happens: predict has resolved "UPI-ZOMATO-1@ybl", which the
\* keyword zomato matches, with a classifier that raises on "ZOMATO 1"
C12_Witness ==
  /\ out.op = "predict"
  /\ out.input = N_ZOMATO
  /\ KeywordHitFailingClassifier(N_ZOMATO)
  /\ keyword_matched_category(predictor.keyword_mappings, N_ZOMATO) = C_DELIVERY

\* the call returned a result dictionary; what a call raises has no
\* predicted_category
IsResultDictionary(result) ==
  /\ "raised" \notin DOMAIN result
  /\ "predicted_category" \in DOMAIN result

\* C13: No exception escapes the cascade.  Whatever the correction map, the
\* taxonomy and the classifier (not loaded, raising, answering), predict has
\* returned a result dictionary, and predict_batch a list of result
\* dictionaries, one for each narration.
C13_NoExceptionEscapes ==
  /\ out.op = "predict" => IsResultDictionary(out.result)
  /\ out.op = "predict_batch"
     => /\ DOMAIN out.result = 1..Len(out.input)
        /\ \A i \in 1..Len(out.input) : IsResultDictionary(out.result[i])

\* C13's case happens: the classifier has raised while predict resolved a
\* narration, and predict has returned the error as a result
C13_Witness ==
  /\ out.op = "predict"
  /\ out.input = N_ZOMATO
  /\ ~predictor.is_none
  /\ DistilBertPredictor_predict(predictor, N_ZOMATO).raised
  /\ out.result = ErrorResult("inference failed")

\* C14: Empty input.  Every predict call on an empty or whitespace-only
\* narration returns a result with category "Uncategorized" and with
\* transaction_type and intent "N/A", and leaves the correction store
\* unread and the correction map as it was.
C14_EmptyInput ==
  [][ ( out'.op = "predict" /\ str_strip(out'.input) = << >> )
      => /\ IsResultDictionary(out'.result)
         /\ out'.result.predicted_category = Uncategorized
         /\ "transaction_type" \in DOMAIN out'.result
         /\ out'.result.transaction_type = "N/A"
         /\ "intent" \in DOMAIN out'.result
         /\ out'.result.intent = "N/A"
         /\ corrections_cache' = corrections_cache
         /\ file_reads' = file_reads ]_vars

\* C14's case happens: a whitespace-only narration has been resolved as
\* "Uncategorized" by a process that has not loaded the correction store
C14_Witness ==
  /\ out.op = "predict"
  /\ out.input = N_BLANK
  /\ out.result.predicted_category = Uncategorized
  /\ corrections_cache.is_none
  /\ file_reads = 0

\* a result labelled User_Correction has confidence 1.0 for its category and
\* is the result of a narration with a stored correction
CorrectionLabelIsSound(description, result) ==
  ( "model_type" \in DOMAIN result /\ result.model_type = "User_Correction" )
  => /\ << "category", 100 >> \in result.confidence
     /\ \A item \in result.confidence : item[1] = "category" => item[2] = 100
     /\ truthy(get_corrected_category(description, corrections_cache.entries))

\* C15: Every result labelled User_Correction, returned by predict or as an
\* item of predict_batch, has confidence["category"] = 1.0, and only
\* narrations with a stored correction get the label.
C15_CorrectionConfidence ==
  /\ out.op = "predict" => CorrectionLabelIsSound(out.input, out.result)
  /\ out.op = "predict_batch"
     => \A i \in 1..Len(out.input) :
          CorrectionLabelIsSound(out.input[i], out.result[i])

\* C15's case happens: predict has returned a correction while the
\* classifier answered with its own confidences
C15_Witness ==
  /\ out.op = "predict"
  /\ out.input = N_UPI_STARBUCKS
  /\ ~predictor.is_none
  /\ ~predict_with_model(predictor, clean_text(N_UPI_STARBUCKS)).raised
  /\ out.result.model_type = "User_Correction"
  /\ out.result.transaction_type = ModelResult.transaction_type
  /\ out.result.confidence = { << "category", 100 >> }

\* no stage of the cascade yields a signal for the narration: it is blank, or
\* no correction matches it and the classifier is not loaded, or no keyword
\* matches either and the classifier has no text to read or raises
NoSignal(description) ==
  \/ str_strip(description) = << >>
  \/ /\ ~truthy(get_corrected_category(description, corrections_cache.entries))
     /\ \/ predictor.is_none
        \/ /\ ~truthy(keyword_matched_category(predictor.keyword_mappings,
                                               description))
           /\ \/ clean_text(description) = << >>
              \/ predict_with_model(predictor, clean_text(description)).raised

\* the category of a result is a non-empty string, and "Uncategorized" when
\* no stage yields a signal for the narration
CategoryIsTotal(description, result) ==
  /\ IsResultDictionary(result)
  /\ result.predicted_category # None
  /\ result.predicted_category # << >>
  /\ NoSignal(description) => result.predicted_category = Uncategorized

\* C16: Category totality.  The predicted_category of every result of
\* predict, and of every item of predict_batch, is a non-empty string,
\* whatever the narration, the stored corrections, the taxonomy and the
\* classifier's label; it is "Uncategorized" when no stage yields a signal.
C16_CategoryTotality ==
  /\ out.op = "predict" => CategoryIsTotal(out.input, out.result)
  /\ out.op = "predict_batch"
     => /\ DOMAIN out.result = 1..Len(out.input)
        /\ \A i \in 1..Len(out.input) :
             CategoryIsTotal(out.input[i], out.result[i])

\* C16's case happens: the classifier, which decodes its answer to the empty
\* label, has answered for a narration that no correction and no keyword
\* matches
C16_Witness ==
  /\ out.op = "predict"
  /\ out.input = N_RENT
  /\ ~predictor.is_none
  /\ predictor.category_label = N_EMPTY
  /\ ~truthy(get_corrected_category(N_RENT, corrections_cache.entries))
  /\ ~truthy(keyword_matched_category(predictor.keyword_mappings, N_RENT))
  /\ ~predict_with_model(predictor, clean_text(N_RENT)).raised
  /\ out.result.model_type = "DistilBERT"

\* the stage of the cascade that decides the category of a narration:
\* a stored correction first, then a taxonomy keyword, then the classifier
DecidingStage(description) ==
  IF truthy(get_corrected_category(description, corrections_cache.entries))
  THEN "user_correction"
  ELSE IF truthy(keyword_matched_category(predictor.keyword_mappings,
                                          description))
  THEN "keyword_match"
  ELSE "ml_prediction"

\* model_type as predict names the stages
StageModelType(stage) ==
  CASE stage = "user_correction" -> "User_Correction"
    [] stage = "keyword_match"   -> "Keyword_Match"
    [] stage = "ml_prediction"   -> "DistilBERT"

\* a result that carries a category of some stage names that stage
NamesDecidingStage(description, result) ==
  ( /\ "model_type" \in DOMAIN result
    /\ ~NoSignal(description) )
  => /\ result.reason = DecidingStage(description)
     /\ result.model_type = StageModelType(DecidingStage(description))

\* C17: Stage labels.  model_type and reason of every result of predict and
\* of every item of predict_batch name the stage that produced the category:
\* User_Correction/user_correction exactly for a stored correction,
\* Keyword_Match/keyword_match exactly for a taxonomy keyword and
\* DistilBERT/ml_prediction exactly for the classifier.
C17_StageLabels ==
  /\ out.op = "predict" => NamesDecidingStage(out.input, out.result)
  /\ out.op = "predict_batch"
     => \A i \in 1..Len(out.input) :
          NamesDecidingStage(out.input[i], out.result[i])

\* the same for the results of predict alone
C17_StageLabelsOfPredict ==
  out.op = "predict" => NamesDecidingStage(out.input, out.result)

\* C17's case happens: predict_batch has resolved a narration by a taxonomy
\* keyword while the classifier answered
C17_Witness ==
  /\ out.op = "predict_batch"
  /\ out.input = << N_ZOMATO >>
  /\ ~predictor.is_none
  /\ DecidingStage(N_ZOMATO) = "keyword_match"
  /\ ~predict_with_model(predictor, clean_text(N_ZOMATO)).raised
  /\ out.result[1].predicted_category = extract_category_parts(C_DELIVERY).top

\* the keyword occurs in the text as a whole word, letter case aside
MatchesWholeWord(text, keyword) ==
  \E i \in 1..(Len(text) - Len(keyword) + 1) :
    /\ str_lower(SubSeq(text, i, i + Len(keyword) - 1)) = str_lower(keyword)
    /\ i = 1 \/ text[i - 1] \notin WordChars
    /\ i + Len(keyword) - 1 = Len(text) \/ text[i + Len(keyword)] \notin WordChars

\* C18: Longest-match precedence.  match_keywords returns the category of a
\* keyword that matches the text as a whole word, case-insensitively, and
\* that is as long as every other matching keyword or longer; it returns
\* None exactly when no keyword of the list matches.
C18_LongestMatch ==
  out.op = "match_keywords"
  => LET matching == { k \in 1..Len(out.keyword_mappings) :
                         MatchesWholeWord(out.narration,
                                          out.keyword_mappings[k][1]) }
     IN  /\ out.result = None <=> matching = {}
         /\ out.result # None
            => \E k \in matching :
                 /\ out.result = out.keyword_mappings[k][2]
                 /\ \A j \in matching :
                      Len(out.keyword_mappings[j][1])
                        <= Len(out.keyword_mappings[k][1])

\* C18's case happens: "fund" is listed before "mutual fund", both match
\* "mutual fund deposit", and match_keywords has answered with the category
\* of "mutual fund"
C18_Witness ==
  /\ out.op = "match_keywords"
  /\ out.narration = T_MUTUAL_DEPOSIT
  /\ out.keyword_mappings = << Taxonomy[1], Taxonomy[2] >>
  /\ out.result = C_MUTUAL

\* a category string without the separator decomposes to itself and None
DecomposesWhole ==
  ( /\ out.op = "extract_category_parts"
    /\ str_find(out.category, CATEGORY_SEPARATOR) = 0 )
  => out.result = [ top |-> out.category, sub |-> None ]

\* C19 as stated: for every top category that does not contain " / " and
\* every subcategory, extract_category_parts(top + " / " + sub) is
\* (top, sub); a string without the separator decomposes to (category, None).
C19_RoundTripOfEveryName ==
  /\ DecomposesWhole
  /\ \A top_name \in TopCategories, subcat_name \in Subcategories :
       ( /\ out.op = "extract_category_parts"
         /\ str_find(top_name, CATEGORY_SEPARATOR) = 0
         /\ out.category = full_category_name(top_name, subcat_name) )
       => out.result = [ top |-> top_name, sub |-> subcat_name ]

\* the name has no blank at either end
IsTrimmed(name) == str_strip(name) = name

\* the name ends in " /", so that the separator that follows it begins a
\* " / " one position early
EndsInBlankSlash(name) ==
  /\ Len(name) >= 2
  /\ SubSeq(name, Len(name) - 1, Len(name)) = << " ", "/" >>

\* C19: Decomposition round trip.  For every top category and subcategory
\* without blanks at their ends, the top category neither containing " / "
\* nor ending in " /", extract_category_parts(top + " / " + sub) is
\* (top, sub); a string without the separator decomposes to (category, None).
C19_RoundTrip ==
  /\ DecomposesWhole
  /\ \A top_name \in TopCategories, subcat_name \in Subcategories :
       ( /\ out.op = "extract_category_parts"
         /\ str_find(top_name, CATEGORY_SEPARATOR) = 0
         /\ ~EndsInBlankSlash(top_name)
         /\ IsTrimmed(top_name)
         /\ IsTrimmed(subcat_name)
         /\ out.category = full_category_name(top_name, subcat_name) )
       => out.result = [ top |-> top_name, sub |-> subcat_name ]

\* C19's case happens: a path whose subcategory has a separator of its own
\* has been decomposed at the first separator
C19_Witness ==
  /\ out.op = "extract_category_parts"
  /\ out.category = <<"D","i","n","i","n","g"," ","/"," ","X"," ","/"," ","Y">>
  /\ out.result = [ top |-> <<"D","i","n","i","n","g">>,
                    sub |-> <<"X"," ","/"," ","Y">> ]

\* C20: Normalizer idempotence.  For every narration x that is not P2P,
\* preprocess_upi_narration(preprocess_upi_narration(x, False), False) is
\* preprocess_upi_narration(x, False).
C20_NormalizerIdempotence ==
  ( /\ out.op = "preprocess_upi_narration_again"
    /\ ~is_likely_p2p(out.text) )
  => out.result = out.once

\* C20's case happens: a narration that is not P2P has been normalized, and
\* the normalizer has run again on what it returned
C20_Witness ==
  /\ out.op = "preprocess_upi_narration_again"
  /\ out.text = X_PAYMENT_FOR_RENT
  /\ ~is_likely_p2p(out.text)
  /\ out.once = <<"R","E","N","T">>
  /\ out.result = out.once

\* the text has a run of n or more digits
HasDigitRun(text, n) ==
  \E i \in 1..(Len(text) - n + 1) :
    \A k \in 0..(n - 1) : text[i + k] \in DigitChars

\* the length of a raw transaction ID: the \d{9,} of the normalizer
TRANSACTION_ID_DIGITS == 9

\* C21: Normalized-text invariant.  For every input, the text that
\* preprocess_upi_narration returns with preserve_p2p_clues=False has no run
\* of 9 or more digits, no '@' and no leading "UPI-" or "UPI/".
C21_NormalizedText ==
  out.op = "preprocess_upi_narration"
  => /\ ~HasDigitRun(out.result, TRANSACTION_ID_DIGITS)
     /\ \A i \in 1..Len(out.result) : out.result[i] # "@"
     /\ ~m_upi_prefix(out.result)

\* C21's case happens: the normalizer has removed a transaction ID that
\* follows a separator
C21_Witness ==
  /\ out.op = "preprocess_upi_narration"
  /\ out.text = X_TRAILING_ID
  /\ out.result = <<"R","E","N","T">>

\* the narrations a keyword entry is tried on: those with a word in them
WordyTexts == { text \in KeywordTexts : m_empty_word(text) }

\* C22: Taxonomy loading.  Every keyword of the list that
\* load_keyword_mappings returns is lower-cased, trimmed and non-empty, and
\* no entry of the list matches every narration.
C22_LoadedKeywords ==
  out.op = "load_keyword_mappings"
  => \A k \in 1..Len(out.result) :
       /\ out.result[k][1] = str_lower(out.result[k][1])
       /\ out.result[k][1] = str_strip(out.result[k][1])
       /\ out.result[k][1] # << >>
       /\ \E text \in WordyTexts :
            match_keywords(text, << out.result[k] >>) = None

\* C22's case happens: a configuration with a padded keyword and a
\* whitespace-only keyword has been loaded, and the padded keyword is in the
\* list, trimmed
C22_Witness ==
  /\ out.op = "load_keyword_mappings"
  /\ out.categories_file.kind = "config"
  /\ out.categories_file.categories[1].keywords
       = << <<" ","f","u","n","d"," ">>, <<" ">> >>
  /\ out.result # << >>
  /\ out.result[1] = << <<"f","u","n","d">>, N_RENT >>

\* the argument of the CLI is taken as the JSON text of a batch
IsBatchArgument(argv) ==
  /\ argv # << >>
  /\ str_strip(argv[1]) # << >>
  /\ str_strip(argv[1])[1] = "["

\* the printed result carries an error other than "Empty description"
CarriesOtherError(result) ==
  "error" \in DOMAIN result /\ result.error # "Empty description"

\* the CLI has resolved a batch: the model is loaded and the argument is the
\* JSON text of an array
ResolvesBatch ==
  /\ ~predictor.is_none
  /\ IsBatchArgument(out.argv)
  /\ json_loads(str_strip(out.argv[1]), ProcessBatches).ok

\* the results that the CLI printed: the items of the array in batch mode,
\* the one result otherwise
PrintedResults == IF ResolvesBatch THEN out.stdout ELSE << out.stdout >>

IsWellFormedList(file) ==
  /\ file.kind = "list"
  /\ \A i \in 1..Len(file.records) : ~malformed_record(file.records[i])

\* C24: Correction store load failures.  When the backing file is missing,
\* empty, no JSON list or malformed (no JSON, or a list with a malformed
\* record), load_corrections leaves an empty correction map, and predict
\* resolves every narration as it does with no corrections.
C24_LoadFailures ==
  ( /\ ~corrections_cache.is_none
    /\ ~IsWellFormedList(corrections_file) )
  => /\ corrections_cache.entries = { }
     /\ out.op = "predict"
        => out.result = predict(out.input, { }, predictor)

\* C24's case happens: the process has found a file that is no JSON, holds
\* an empty correction map, and has resolved a narration by a keyword
C24_Witness ==
  /\ corrections_file.kind = "malformed"
  /\ ~corrections_cache.is_none
  /\ corrections_cache.entries = { }
  /\ out.op = "predict"
  /\ out.input = N_UPI_STARBUCKS
  /\ "model_type" \in DOMAIN out.result
  /\ out.result.model_type = "Keyword_Match"

\* the category that a process which loads the store now resolves the
\* narration to
ResolvedAfterLoad(narration) ==
  get_corrected_category(narration,
                         load_corrections(NoCache, corrections_file).entries)

\* C25: Last write wins.  After every call of add_correction that has
\* written a correction, a process that then loads the store resolves the
\* narration of the call to the category of the call.
C25_LastWriteWins ==
  ( out.op = "add_correction" /\ out.ret )
  => ResolvedAfterLoad(out.narration) = str_strip(out.category)

\* the same for the calls that append a record to the list
C25_LastAppendWins ==
  ( /\ out.op = "add_correction"
    /\ out.ret
    /\ corrections_file.kind = "list"
    /\ corrections_file.records # << >>
    /\ corrections_file.records[Len(corrections_file.records)].timestamp = clock )
  => ResolvedAfterLoad(out.narration) = str_strip(out.category)

\* C25's case happens: a second category has been written for a narration,
\* and a process that loads the store resolves the narration to it
C25_Witness ==
  /\ out.op = "add_correction"
  /\ out.ret
  /\ out.narration = N_STARBUCKS
  /\ out.category = C_SHOPPING
  /\ corrections_file.kind = "list"
  /\ Len(corrections_file.records) = 2
  /\ corrections_file.records[1].category = C_DINING_CAFES
  /\ ResolvedAfterLoad(N_STARBUCKS) = C_SHOPPING

\* C26: Raw before normalized.  In the keyword stage of
\* DistilBertPredictor.predict a match of the raw narration decides the
\* category, whatever the normalized narration matches; the normalized
\* narration decides only when the raw narration matches no keyword.
C26_RawBeforeNormalized ==
  ( /\ out.op = "DistilBertPredictor.predict"
    /\ str_strip(out.narration) # << >> )
  => LET raw_match == match_keywords(out.narration, out.keyword_mappings)
         clean_match == match_keywords(clean_text(out.narration),
                                       out.keyword_mappings)
         result == out.result.value
     IN  /\ ~out.result.raised
         /\ raw_match # None
            => flag(result, "keyword_matched") /\ result.category = raw_match
         /\ ( raw_match = None /\ clean_match # None )
            => flag(result, "keyword_matched") /\ result.category = clean_match
         /\ ( raw_match = None /\ clean_match = None )
            => ~flag(result, "keyword_matched")

\* C26's case happens: the raw narration matches "starbucks@paytm", the
\* normalized narration matches "starbucks" only, and the category is that
\* of the raw match
C26_Witness ==
  /\ out.op = "DistilBertPredictor.predict"
  /\ out.narration = N_UPI_STARBUCKS
  /\ match_keywords(out.narration, out.keyword_mappings) = C_SHOPPING
  /\ match_keywords(clean_text(out.narration), out.keyword_mappings)
       = C_DINING_CAFES
  /\ out.result.value.category = C_SHOPPING

\* C27: No classifier call on an empty normalized text.  When the narration
\* is not blank and normalizes to the empty string, predict answers without
\* the classifier: after a correction or a keyword match transaction_type
\* and intent are "N/A", and with neither the result is the terminal
\* default, category "Uncategorized" with transaction_type and intent "N/A".
C27_EmptyNormalizedText ==
  ( /\ out.op = "predict"
    /\ str_strip(out.input) # << >>
    /\ clean_text(out.input) = << >>
    /\ \/ ~predictor.is_none
       \/ truthy(get_corrected_category(out.input, corrections_cache.entries)) )
  => /\ "model_type" \in DOMAIN out.result
     /\ out.result.transaction_type = "N/A"
     /\ out.result.intent = "N/A"
     /\ out.result.model_type = "DistilBERT"
        => /\ out.result.predicted_category = Uncategorized
           /\ "predicted_subcategory" \notin DOMAIN out.result

\* C27's case happens: a correction decides "TXN", whose normalized text is
\* empty, with a classifier loaded that answers on every text
C27_Witness ==
  /\ out.op = "predict"
  /\ out.input = N_TXN
  /\ clean_text(out.input) = << >>
  /\ ~predictor.is_none
  /\ predictor.fails_on = None
  /\ "model_type" \in DOMAIN out.result
  /\ out.result.model_type = "User_Correction"
  /\ out.result.transaction_type = "N/A"

\* the keyword stage decides a narration whose normalized text is empty
C27_KeywordStageReached ==
  /\ out.op = "predict"
  /\ clean_text(out.input) = << >>
  /\ "model_type" \in DOMAIN out.result
  /\ out.result.model_type = "Keyword_Match"

\* the model stage is reached with an empty normalized text
C27_ModelStageReached ==
  /\ out.op = "predict"
  /\ clean_text(out.input) = << >>
  /\ "model_type" \in DOMAIN out.result
  /\ out.result.model_type = "DistilBERT"

\* the text has no '-' and no '/', no whitespace at its ends and no two
\* whitespace characters in a row
HasOutputShape(text) ==
  /\ isinstance_str(text)
  /\ \A i \in 1..Len(text) : text[i] \notin Separators
  /\ str_strip(text) = text
  /\ \A i \in 1..(Len(text) - 1) :
       ~( text[i] \in Whitespace /\ text[i + 1] \in Whitespace )

\* C28: Output shape of the normalizer.  With either value of
\* preserve_p2p_clues, what preprocess_upi_narration returns is a string
\* with no '-', no '/', no whitespace at its ends and no two consecutive
\* whitespace characters; for None, a value that is no string, the empty
\* string and a whitespace-only string it is the empty string.
C28_OutputShape ==
  out.op \in { "preprocess_upi_narration", "preprocess_upi_narration_p2p" }
  => /\ HasOutputShape(out.result)
     /\ ( \/ ~isinstance_str(out.text)
          \/ str_strip(out.text) = << >> )
        => out.result = << >>

\* C28's case happens: in P2P mode the text after the handle is kept behind
\* a blank, and the two blanks in a row are returned as one
C28_Witness ==
  /\ out.op = "preprocess_upi_narration_p2p"
  /\ out.text = X_HANDLE_GIFT
  /\ out.result = <<"X"," ","G","i","f","t">>

\* C29: Deterministic tie-break.  When match_keywords finds a match, its
\* result is the category of the first entry, in the order of the list it
\* was given, among the matching entries whose keyword has the maximal
\* length.
C29_TieBreak ==
  out.op = "match_keywords"
  => LET entries == out.keyword_mappings
         matching == { k \in 1..Len(entries) :
                         MatchesWholeWord(out.narration, entries[k][1]) }
         longest == { k \in matching :
                        \A j \in matching :
                          Len(entries[j][1]) <= Len(entries[k][1]) }
     IN  matching # {} => out.result = entries[SetMin(longest)][2]

\* C29's case happens: "Fund" is listed before "fund", both match
\* "fund-zomato" with the same length, and the category is that of "Fund"
C29_Witness ==
  /\ out.op = "match_keywords"
  /\ out.narration = T_FUND_ZOMATO
  /\ out.keyword_mappings = << << <<"F","u","n","d">>, C_TRAVEL_CAB >>,
                               Taxonomy[1] >>
  /\ out.result = C_TRAVEL_CAB

\* not text or not text.strip()
IsBlank(text) == text = << >> \/ str_strip(text) = << >>

\* C30: Rejected upsert leaves the store unchanged.  A call of add_correction
\* with an empty or whitespace-only narration or category returns False,
\* raises nothing, and leaves the backing file exactly as it was.
C30_RejectedUpsert ==
  [][ ( /\ clock' = clock + 1
        /\ out'.op = "add_correction"
        /\ IsBlank(out'.narration) \/ IsBlank(out'.category) )
      => /\ out'.ret = FALSE
         /\ ~out'.raised
         /\ corrections_file' = corrections_file ]_vars

\* C30's case happens: the store holds a correction, and a call with a
\* whitespace-only narration has been rejected
C30_Witness ==
  /\ out.op = "add_correction"
  /\ out.narration = N_BLANK
  /\ out.category = C_SHOPPING
  /\ out.ret = FALSE
  /\ corrections_file.kind = "list"
  /\ Len(corrections_file.records) = 1

=============================================================================
